---- MODULE Spec2Model ----
(***************************************************************************)
(* State-machine model of the drama-llama "ai" service: the API-key gate   *)
(* in front of the routers, the roadmap tools and plan_action, the quiz    *)
(* attempt lifecycle, the chat SSE generator and the graduation-project    *)
(* routes.  Every definition is translated from the Python source named    *)
(* in MODEL_MAP.json.                                                      *)
(***************************************************************************)
EXTENDS Integers, Sequences, FiniteSets, TLC

VARIABLES
    httpLog,          \* requests served so far: route, key, status, handler_ran
    roadmaps,         \* Roadmap rows, in insertion order
    goals,            \* RoadmapGoal rows
    materials,        \* LearningMaterial rows
    planned,          \* what the last plan_action call sent to the model
    toolResult,       \* outcome of the last roadmap/material tool execution
    quiz,             \* the Quiz row and its QuizQuestion rows
    attempts,         \* QuizAttempt rows (with their QuizAnswer rows)
    quizResult,       \* outcome of the last create_quiz_attempt call
    chat,             \* the chat event generator: position, events emitted
    gradQuestions,    \* GraduationProjectQuestion rows
    gradSubmissions,  \* GraduationProjectSubmission rows
    gradCounters,     \* generate calls made and the next question id
    gradResult,       \* outcome of the last graduation-project call
    bulk,             \* the bulk material generation: futures, results, response
    cache,             \* the caching service: embedding model, stored points, last answer
    prompt,            \* the prompt loader's cache and the Prompt instances built
    sessionMessages,   \* the messages column of a session and the last message call
    health,            \* the answers of GET /health so far
    attemptCalls,      \* the create_quiz_attempt calls in flight
    groq,              \* the retry loop of the hosted-API client
    fallback,          \* the fallback chain of one execute_with_fallback call
    monitor,           \* the execution monitor: metrics of one tool, alerts created
    decisionMonitor,   \* the decision monitor: logged events, report cache, clock
    goalProgress,      \* goal rows of one roadmap, the roadmap's status, the last call
    sessionRow,        \* one session row: name, status, completed_at; the last call
    userSkills        \* UserSkill rows in insertion order

vars == <<httpLog, roadmaps, goals, materials, planned, toolResult, quiz,
          attempts, quizResult, chat, gradQuestions, gradSubmissions, gradCounters,
          gradResult, bulk, cache, prompt, sessionMessages, health, attemptCalls, groq, fallback, monitor, decisionMonitor, goalProgress, sessionRow, userSkills>>

authVars == <<httpLog>>
roadmapVars == <<roadmaps, goals, materials, planned, toolResult>>
quizVars == <<quiz, attempts, quizResult>>
chatVars == <<chat>>
gradVars == <<gradQuestions, gradSubmissions, gradCounters, gradResult>>
auxVars == <<bulk, cache, prompt, sessionMessages, health, attemptCalls, groq, fallback, monitor, decisionMonitor, goalProgress, sessionRow, userSkills>>

None == "None"

Range(s) == {s[i] : i \in DOMAIN s}

RECURSIVE SumSeq(_)
SumSeq(s) == IF s = <<>> THEN 0 ELSE Head(s) + SumSeq(Tail(s))

(***************************************************************************)
(* API-key gate (utils/auth.py, main.py, the three routers)                *)
(***************************************************************************)

\* Requests kept in httpLog.
MaxRequests == 1

\* settings.api_key_secret
api_key_secret == "dev-secret-key"

\* Values of the X-API-Key header: absent (None), empty, wrong, right.
ApiKeys == {None, "", "invalid-key-12345", api_key_secret}

AppRoutes == {"GET /health", "GET /drop_db"}

SessionsRoutes ==
    {"POST /sessions/", "GET /sessions/{session_id}",
     "GET /sessions/user/{user_id}", "PATCH /sessions/{session_id}",
     "DELETE /sessions/{session_id}", "GET /sessions/{session_id}/full",
     "GET /sessions/{session_id}/progress",
     "POST /sessions/{session_id}/complete",
     "POST /sessions/{session_id}/archive",
     "GET /sessions/user/{user_id}/stats",
     "POST /sessions/{session_id}/messages",
     "GET /sessions/{session_id}/messages",
     "GET /sessions/{session_id}/messages/recent",
     "DELETE /sessions/{session_id}/messages",
     "GET /sessions/{session_id}/messages/count"}

AiRoutes ==
    {"POST /ai/sessions/{session_id}/chat",
     "POST /ai/sessions/{session_id}/summarize-cv",
     "POST /ai/sessions/{session_id}/execute-tool/createRoadmapSkeleton",
     "POST /ai/sessions/{session_id}/execute-tool/editRoadmapSkeleton",
     "POST /ai/sessions/{session_id}/execute-tool/createLearningMaterials",
     "GET /ai/sessions/{session_id}/roadmap",
     "GET /ai/health",
     "POST /ai/sessions/{session_id}/quizzes",
     "POST /ai/sessions/{session_id}/quizzes/{quiz_id}/attempts",
     "POST /ai/sessions/{session_id}/quiz-attempts/{attempt_id}/submit"}

GraduationRoutes ==
    {"POST /ai/graduation-project/{session_id}/generate-questions",
     "GET /ai/graduation-project/{session_id}/questions",
     "POST /ai/graduation-project/{session_id}/submit",
     "GET /ai/graduation-project/{session_id}/submissions"}

Routes == AppRoutes \cup SessionsRoutes \cup AiRoutes \cup GraduationRoutes

\* The dependencies=[...] argument each APIRouter is constructed with.
sessions_router_dependencies == {}
ai_router_dependencies == {"verify_api_key"}
graduation_project_router_dependencies == {"verify_api_key"}

\* Depends(...) parameters declared on the path operations of main.py.
app_route_dependencies(route) ==
    IF route = "GET /drop_db" THEN {"verify_api_key"} ELSE {}

\* The dependencies FastAPI resolves before the handler of a route runs.
RouteDependencies(route) ==
    IF route \in SessionsRoutes THEN sessions_router_dependencies
    ELSE IF route \in AiRoutes THEN ai_router_dependencies
    ELSE IF route \in GraduationRoutes THEN graduation_project_router_dependencies
    ELSE app_route_dependencies(route)

\* verify_api_key: 403 for a missing (or empty) key and for a wrong key.
verify_api_key(x_api_key) ==
    IF x_api_key = None \/ x_api_key = "" THEN 403
    ELSE IF x_api_key # api_key_secret THEN 403
    ELSE 200

\* One HTTP request: the route's dependencies run first; a dependency that
\* raises HTTPException answers the request and the handler never runs.
\* handler_status is what the handler answers per its normal logic.
ServeRequest(route, x_api_key, handler_status) ==
    LET blocked == "verify_api_key" \in RouteDependencies(route)
                   /\ verify_api_key(x_api_key) = 403
        entry == [route |-> route, x_api_key |-> x_api_key,
                  status |-> IF blocked THEN 403 ELSE handler_status,
                  handler_ran |-> ~blocked]
    IN  /\ Len(httpLog) < MaxRequests
        /\ httpLog' = Append(httpLog, entry)

HttpRequest ==
    /\ \E route \in Routes, x_api_key \in ApiKeys, handler_status \in {200, 404} :
          ServeRequest(route, x_api_key, handler_status)
    /\ UNCHANGED <<roadmapVars, quizVars, chatVars, gradVars, auxVars>>

InitAuth == httpLog = <<>>

\* C1: every route other than /health answers a request without the
\* configured key with 403 and never runs its handler.
C1_EveryRouteGated ==
    \A i \in DOMAIN httpLog :
        (httpLog[i].route # "GET /health" /\ httpLog[i].x_api_key # api_key_secret)
            => (httpLog[i].status = 403 /\ ~httpLog[i].handler_ran)

(***************************************************************************)
(* Quiz attempts (db_config/crud.py)                                       *)
(***************************************************************************)

\* Cap on the QuizAttempt rows of a run, and on the points of a question.
MaxAttemptRows == 2
MaxPoints == 2

Users == {"u1", "u2"}

\* quiz_id values of the calls: quiz 1 exists, quiz 2 does not.
QuizIdInputs == {1, 2}

\* The Quiz rows the runs start from, as create_quiz leaves them behind the
\* QuizCreate schema (max_attempts >= 1, points >= 1, 0 <= passing <= 100):
\* a one-question quiz that may be attempted once or twice, and two-question
\* quizzes whose first question is worth 1..MaxPoints points.
QuizConfigs ==
    {[id |-> 1, max_attempts |-> m, passing_score_percentage |-> 70,
      questions |-> <<[id |-> 1, points |-> 1, correct_answer |-> "A"]>>] :
        m \in {1, 2}}
    \cup
    {[id |-> 1, max_attempts |-> 1, passing_score_percentage |-> t,
      questions |-> <<[id |-> 1, points |-> p1, correct_answer |-> "A"],
                      [id |-> 2, points |-> 1, correct_answer |-> "B"]>>] :
        t \in {50, 70}, p1 \in 1..MaxPoints}

\* get_quiz
get_quiz(quiz_id) == IF quiz.id = quiz_id THEN {quiz} ELSE {}

\* get_questions_by_quiz
get_questions_by_quiz(quiz_id) ==
    IF quiz.id = quiz_id THEN Range(quiz.questions) ELSE {}

\* The answers of a submit call: a question of the quiz with one of two
\* option letters, or an answer to a question (99) the quiz does not have.
AnswerInputs ==
    {[question_id |-> q, selected_answer |-> a] :
        q \in {qq.id : qq \in Range(quiz.questions)}, a \in {"A", "B"}}

UnknownAnswer == [question_id |-> 99, selected_answer |-> "A"]

\* Batches may leave questions out, repeat an answer and name an unknown
\* question.
AnswerBatches ==
    {<<>>, <<UnknownAnswer>>}
    \cup {<<a>> : a \in AnswerInputs}
    \cup {<<a, a>> : a \in AnswerInputs}
    \cup {<<a, UnknownAnswer>> : a \in AnswerInputs}
    \cup {<<p[1], p[2]>> :
            p \in {x \in AnswerInputs \X AnswerInputs :
                      x[1].question_id # x[2].question_id}}

\* The attempts of one (quiz, user), the filter of create_quiz_attempt.
AttemptsOf(quiz_id, user_id) ==
    {i \in DOMAIN attempts :
        attempts[i].quiz_id = quiz_id /\ attempts[i].user_id = user_id}

\* order_by(desc(attempt_number)).first(): 0 stands for "no row".
last_attempt_number(quiz_id, user_id) ==
    IF AttemptsOf(quiz_id, user_id) = {} THEN 0
    ELSE CHOOSE n \in {attempts[i].attempt_number : i \in AttemptsOf(quiz_id, user_id)} :
            \A i \in AttemptsOf(quiz_id, user_id) : attempts[i].attempt_number <= n

max_attempts_exceeded_off_by_one(has_last, last_number, max_attempts) ==
    has_last /\ last_number > max_attempts

\* "if last_attempt and last_attempt.attempt_number >= quiz.max_attempts"
max_attempts_exceeded(has_last, last_number, max_attempts) ==
    has_last /\ last_number >= max_attempts

create_quiz_attempt(quiz_id, user_id) ==
    LET has_last == AttemptsOf(quiz_id, user_id) # {}
        last_number == last_attempt_number(quiz_id, user_id)
        attempt_number == IF has_last THEN last_number + 1 ELSE 1
        existing == Cardinality(AttemptsOf(quiz_id, user_id))
        result(outcome) == [op |-> "create_quiz_attempt", user_id |-> user_id,
                            quiz_id |-> quiz_id, existing |-> existing,
                            outcome |-> outcome]
    IN  IF get_quiz(quiz_id) = {}
        THEN /\ quizResult' = result("NotFound")
             /\ UNCHANGED attempts
        ELSE IF max_attempts_exceeded(has_last, last_number, quiz.max_attempts)
        THEN /\ quizResult' = result("LimitExceeded")
             /\ UNCHANGED attempts
        ELSE /\ Len(attempts) < MaxAttemptRows
             /\ attempts' = Append(attempts,
                     [quiz_id |-> quiz_id, user_id |-> user_id,
                      attempt_number |-> attempt_number,
                      total_questions |-> Len(quiz.questions),
                      status |-> "in_progress", correct_answers |-> 0,
                      score_percentage |-> [num |-> 0, den |-> 1],
                      passed |-> FALSE, answers |-> <<>>])
             /\ quizResult' = result("created")

\* The QuizAnswer row submit_quiz_attempt adds for one answer of a question
\* of the quiz.
QuizAnswerRow(answer, question) ==
    LET is_correct == answer.selected_answer = question.correct_answer
    IN  [question_id |-> answer.question_id,
         selected_answer |-> answer.selected_answer,
         is_correct |-> is_correct,
         points_earned |-> IF is_correct THEN question.points ELSE 0,
         points |-> question.points]

\* The loop of submit_quiz_attempt: answers of unknown questions are skipped.
RECURSIVE ProcessAnswers(_, _)
ProcessAnswers(answers, question_map) ==
    IF answers = <<>> THEN <<>>
    ELSE LET hit == {q \in question_map : q.id = Head(answers).question_id}
         IN  IF hit = {} THEN ProcessAnswers(Tail(answers), question_map)
             ELSE <<QuizAnswerRow(Head(answers), CHOOSE q \in hit : TRUE)>>
                  \o ProcessAnswers(Tail(answers), question_map)

RowField(rows, f) == [i \in DOMAIN rows |-> rows[i][f]]

\* total_points: summed over the answers that were processed, not over the
\* questions of the quiz.
total_points_of(rows) == SumSeq(RowField(rows, "points"))

\* score_percentage = earned / total * 100 (0 if total is 0), kept as the
\* fraction num/den.
score_percentage_of(earned_points, total_points) ==
    IF total_points > 0 THEN [num |-> earned_points * 100, den |-> total_points]
    ELSE [num |-> 0, den |-> 1]

\* "if attempt.status != 'in_progress': raise ValueError"
submit_rejects_status(status) == status # "in_progress"

\* Both ValueErrors (attempt not found, attempt not in progress) leave the
\* store as it is.
submit_quiz_attempt(attempt_id, answers) ==
    IF attempt_id \notin DOMAIN attempts
    THEN UNCHANGED attempts
    ELSE IF submit_rejects_status(attempts[attempt_id].status)
    THEN UNCHANGED attempts
    ELSE LET question_map == get_questions_by_quiz(attempts[attempt_id].quiz_id)
             rows == ProcessAnswers(answers, question_map)
             correct_answers ==
                 Cardinality({i \in DOMAIN rows : rows[i].is_correct})
             total_points == total_points_of(rows)
             earned_points == SumSeq(RowField(rows, "points_earned"))
             score_percentage == score_percentage_of(earned_points, total_points)
             passed == score_percentage.num >=
                           quiz.passing_score_percentage * score_percentage.den
         IN  attempts' = [attempts EXCEPT ![attempt_id] =
                    [@ EXCEPT !.answers = rows,
                              !.correct_answers = correct_answers,
                              !.score_percentage = score_percentage,
                              !.passed = passed,
                              !.status = "completed"]]

\* abandon_quiz_attempt: no check of the attempt's status.
abandon_quiz_attempt(attempt_id) ==
    IF attempt_id \notin DOMAIN attempts
    THEN UNCHANGED attempts
    ELSE attempts' = [attempts EXCEPT ![attempt_id].status = "abandoned"]

CreateQuizAttempt ==
    /\ \E quiz_id \in QuizIdInputs, user_id \in Users :
          create_quiz_attempt(quiz_id, user_id)
    /\ UNCHANGED <<quiz, authVars, auxVars, roadmapVars, chatVars, gradVars>>

SubmitQuizAttempt ==
    /\ \E attempt_id \in 1..(Len(attempts) + 1), answers \in AnswerBatches :
          submit_quiz_attempt(attempt_id, answers)
    /\ UNCHANGED <<quiz, quizResult, authVars, auxVars, roadmapVars, chatVars, gradVars>>

AbandonQuizAttempt ==
    /\ \E attempt_id \in 1..(Len(attempts) + 1) : abandon_quiz_attempt(attempt_id)
    /\ UNCHANGED <<quiz, quizResult, authVars, auxVars, roadmapVars, chatVars, gradVars>>

InitQuiz ==
    /\ quiz \in QuizConfigs
    /\ attempts = <<>>
    /\ quizResult = [op |-> "none", user_id |-> "none", quiz_id |-> 0,
                     existing |-> 0, outcome |-> "none"]

NextQuiz == CreateQuizAttempt \/ SubmitQuizAttempt \/ AbandonQuizAttempt

\* C3: an attempt that is completed or abandoned keeps its status through
\* every later submit_quiz_attempt and abandon_quiz_attempt call.
C3_StatusFinal ==
    [][\A i \in DOMAIN attempts :
          attempts[i].status # "in_progress"
              => attempts'[i].status = attempts[i].status]_vars

\* The questions a completed attempt answered correctly, and their points.
CorrectSet(attempt) ==
    {q \in Range(quiz.questions) :
        \E i \in DOMAIN attempt.answers :
            attempt.answers[i].question_id = q.id /\ attempt.answers[i].is_correct}

RECURSIVE SumPoints(_)
SumPoints(qs) ==
    IF qs = {} THEN 0
    ELSE LET q == CHOOSE x \in qs : TRUE IN q.points + SumPoints(qs \ {q})

\* C4: an accepted submission with exactly the questions of S correct has
\* score_percentage = 100 * (points of S) / (points of all questions of the
\* quiz), and passed holds exactly when that is >= passing_score_percentage.
C4_ScoreOverAllQuestions ==
    \A i \in DOMAIN attempts :
        attempts[i].status = "completed" =>
            LET earned == SumPoints(CorrectSet(attempts[i]))
                all == SumPoints(Range(quiz.questions))
            IN  /\ attempts[i].score_percentage.num * all =
                       100 * earned * attempts[i].score_percentage.den
                /\ attempts[i].passed <=>
                       (100 * earned >= quiz.passing_score_percentage * all)

\* C5: the k-th attempt created for a (quiz, user) has attempt_number k, a
\* (quiz, user) never has more than max_attempts attempts, and a call made
\* when max_attempts attempts exist fails and creates nothing.
C5_AttemptNumbering ==
    /\ \A i \in DOMAIN attempts :
          attempts[i].attempt_number =
              Cardinality({j \in 1..i :
                  attempts[j].quiz_id = attempts[i].quiz_id
                  /\ attempts[j].user_id = attempts[i].user_id})
    /\ \A u \in Users : Cardinality(AttemptsOf(quiz.id, u)) <= quiz.max_attempts
    /\ (quizResult.op = "create_quiz_attempt" /\ quizResult.quiz_id = quiz.id
        /\ quizResult.existing >= quiz.max_attempts)
          => /\ quizResult.outcome = "LimitExceeded"
             /\ Cardinality(AttemptsOf(quiz.id, quizResult.user_id)) = quizResult.existing

\* A user holds two attempts, numbered 1 and 2, and a third call was refused.
C5_Witness ==
    /\ quiz.max_attempts = 2
    /\ quizResult.op = "create_quiz_attempt"
    /\ quizResult.outcome = "LimitExceeded"
    /\ Cardinality(AttemptsOf(quiz.id, quizResult.user_id)) = 2
    /\ \E i, j \in DOMAIN attempts :
          /\ i < j
          /\ attempts[i].user_id = quizResult.user_id
          /\ attempts[j].user_id = quizResult.user_id
          /\ attempts[i].attempt_number = 1
          /\ attempts[j].attempt_number = 2

(***************************************************************************)
(* Roadmaps, goals, learning materials and action planning                 *)
(* (utils/ai/service.py, utils/ai/tool_specs.py, db_config/crud.py)        *)
(***************************************************************************)

MaxRoadmapRows == 2
MaxMaterialRows == 2

SessionIds == {1, 2}

\* Names of the tools registered in TOOL_SPECS, in registration order.
TOOL_SPECS ==
    << "createRoadmapSkeleton", "createLearningMaterials",
       "createGraduationProjectQuestions", "evaluateGraduationProjectAnswer" >>

get_tool_names == TOOL_SPECS

get_tool_spec(tool_name) == tool_name \in Range(TOOL_SPECS)

\* A Python list is falsy when empty, so an empty selection falls back to
\* every registered tool.  A definition is identified by its function name.
get_tool_definitions(available_tools) ==
    LET tools_to_include ==
            IF available_tools # <<>> THEN available_tools ELSE get_tool_names
    IN  SelectSeq(tools_to_include, get_tool_spec)

\* Structured answers of the model to a roadmap prompt: a body that is not
\* JSON, or a list of goals (goal_number, priority).
RoadmapResponses ==
    { [ok |-> FALSE, goals |-> <<>>],
      [ok |-> TRUE,  goals |-> << [goal_number |-> 1, priority |-> 1] >>],
      [ok |-> TRUE,  goals |-> << [goal_number |-> 2, priority |-> 3],
                                  [goal_number |-> 1, priority |-> 5] >>] }

MaterialResponses == {TRUE, FALSE}

RoadmapsOf(session_id) ==
    {i \in DOMAIN roadmaps : roadmaps[i].session_id = session_id}

\* .first() without ORDER BY: any row of the session may be returned;
\* 0 stands for "no row".
get_roadmap_by_session(session_id) ==
    IF RoadmapsOf(session_id) = {} THEN {0} ELSE RoadmapsOf(session_id)

get_goal(goal_id) == goal_id \in DOMAIN goals

RECURSIVE SortByGoalNumber(_)
SortByGoalNumber(ids) ==
    IF ids = {} THEN <<>>
    ELSE LET first == CHOOSE i \in ids :
                        \A j \in ids :
                            \/ goals[i].goal_number < goals[j].goal_number
                            \/ (goals[i].goal_number = goals[j].goal_number /\ i <= j)
         IN  <<first>> \o SortByGoalNumber(ids \ {first})

get_goals_by_roadmap(roadmap_id) ==
    SortByGoalNumber({i \in DOMAIN goals : goals[i].roadmap_id = roadmap_id})

get_materials_by_roadmap(roadmap_id) ==
    {m \in DOMAIN materials : goals[materials[m].goal_id].roadmap_id = roadmap_id}

skill_level_of(priority) ==
    IF priority <= 2 THEN "advanced"
    ELSE IF priority = 3 THEN "intermediate"
    ELSE "beginner"

RECURSIVE create_goals(_, _, _)
create_goals(rows, roadmap_id, goal_data) ==
    IF goal_data = <<>> THEN rows
    ELSE create_goals(
            Append(rows, [roadmap_id  |-> roadmap_id,
                          goal_number |-> Head(goal_data).goal_number,
                          priority    |-> Head(goal_data).priority,
                          skill_level |-> skill_level_of(Head(goal_data).priority)]),
            roadmap_id, Tail(goal_data))

\* _save_roadmap_to_db: one new Roadmap row, then one RoadmapGoal row per goal.
save_roadmap_to_db(session_id, roadmap_response) ==
    /\ Len(roadmaps) < MaxRoadmapRows
    /\ roadmaps' = Append(roadmaps, [session_id |-> session_id, status |-> "active"])
    /\ goals' = create_goals(goals, Len(roadmaps) + 1, roadmap_response.goals)

GoalNumbers(goal_ids) == [k \in DOMAIN goal_ids |-> goals[goal_ids[k]].goal_number]

ResponseGoalNumbers(response) ==
    [k \in DOMAIN response.goals |-> response.goals[k].goal_number]

ToolOutcome(op, session_id, outcome, llm_called, roadmap_id, goal_numbers) ==
    [op |-> op, session_id |-> session_id, outcome |-> outcome,
     llm_called |-> llm_called, roadmap_id |-> roadmap_id, goals |-> goal_numbers]

\* Roadmap creation without the look-up of an existing roadmap.
execute_roadmap_creation_unguarded(session_id, response) ==
    IF ~response.ok
    THEN /\ toolResult' = ToolOutcome("createRoadmapSkeleton", session_id,
                            "InvalidUpstreamResponse", TRUE, 0, <<>>)
         /\ UNCHANGED <<roadmaps, goals>>
    ELSE /\ save_roadmap_to_db(session_id, response)
         /\ toolResult' = ToolOutcome("createRoadmapSkeleton", session_id, "created",
                            TRUE, Len(roadmaps) + 1, ResponseGoalNumbers(response))

execute_roadmap_creation(session_id, response) ==
    \E existing_roadmap \in get_roadmap_by_session(session_id) :
        IF existing_roadmap # 0
        THEN /\ toolResult' = ToolOutcome("createRoadmapSkeleton", session_id, "existing",
                                FALSE, existing_roadmap,
                                GoalNumbers(get_goals_by_roadmap(existing_roadmap)))
             /\ UNCHANGED <<roadmaps, goals>>
        ELSE IF ~response.ok
        THEN /\ toolResult' = ToolOutcome("createRoadmapSkeleton", session_id,
                                "InvalidUpstreamResponse", TRUE, 0, <<>>)
             /\ UNCHANGED <<roadmaps, goals>>
        ELSE /\ save_roadmap_to_db(session_id, response)
             /\ toolResult' = ToolOutcome("createRoadmapSkeleton", session_id, "created",
                                TRUE, Len(roadmaps) + 1, ResponseGoalNumbers(response))

execute_roadmap_skeleton_editing(session_id, response) ==
    \E roadmap \in get_roadmap_by_session(session_id) :
        IF roadmap = 0
        THEN /\ toolResult' = ToolOutcome("editRoadmapSkeleton", session_id, "NotFound",
                                FALSE, 0, <<>>)
             /\ UNCHANGED <<roadmaps, goals>>
        ELSE IF ~response.ok
        THEN /\ toolResult' = ToolOutcome("editRoadmapSkeleton", session_id,
                                "InvalidUpstreamResponse", TRUE, 0, <<>>)
             /\ UNCHANGED <<roadmaps, goals>>
        ELSE /\ save_roadmap_to_db(session_id, response)
             /\ toolResult' = ToolOutcome("editRoadmapSkeleton", session_id, "edited",
                                TRUE, Len(roadmaps) + 1, ResponseGoalNumbers(response))

execute_material_creation(goal_id, session_id, response_ok) ==
    \E roadmap \in get_roadmap_by_session(session_id) :
        IF ~get_goal(goal_id)
        THEN /\ toolResult' = ToolOutcome("createLearningMaterials", session_id,
                                "GoalNotFound", FALSE, 0, <<>>)
             /\ UNCHANGED materials
        ELSE IF roadmap = 0
        THEN /\ toolResult' = ToolOutcome("createLearningMaterials", session_id,
                                "NotFound", FALSE, 0, <<>>)
             /\ UNCHANGED materials
        ELSE IF ~response_ok
        THEN /\ toolResult' = ToolOutcome("createLearningMaterials", session_id,
                                "InvalidUpstreamResponse", TRUE, roadmap, <<>>)
             /\ UNCHANGED materials
        ELSE /\ Len(materials) < MaxMaterialRows
             /\ materials' = Append(materials,
                                [goal_id |-> goal_id,
                                 difficulty_level |-> goals[goal_id].skill_level])
             /\ toolResult' = ToolOutcome("createLearningMaterials", session_id,
                                "created", TRUE, roadmap, <<>>)

\* plan_action up to the request it sends: which tools it selects and which
\* tool definitions go out with the request.
plan_action(session_id) ==
    \E roadmap \in get_roadmap_by_session(session_id) :
        LET has_roadmap == roadmap # 0
            learning_materials ==
                IF has_roadmap THEN get_materials_by_roadmap(roadmap) ELSE {}
            has_learning_materials == learning_materials # {}
            available_tools ==
                IF has_learning_materials THEN <<>>
                ELSE IF has_roadmap THEN << "createLearningMaterials" >>
                ELSE << "createRoadmapSkeleton" >>
        IN  planned' = [session_id             |-> session_id,
                        has_roadmap            |-> has_roadmap,
                        has_learning_materials |-> has_learning_materials,
                        available_tools        |-> available_tools,
                        tool_definitions       |-> get_tool_definitions(available_tools)]

ExecuteRoadmapCreation ==
    /\ \E session_id \in SessionIds, response \in RoadmapResponses :
            execute_roadmap_creation(session_id, response)
    /\ UNCHANGED <<materials, planned, authVars, auxVars, quizVars, chatVars, gradVars>>

ExecuteRoadmapSkeletonEditing ==
    /\ \E session_id \in SessionIds, response \in RoadmapResponses :
            execute_roadmap_skeleton_editing(session_id, response)
    /\ UNCHANGED <<materials, planned, authVars, auxVars, quizVars, chatVars, gradVars>>

ExecuteMaterialCreation ==
    /\ \E session_id \in SessionIds, goal_id \in 1..(Len(goals) + 1),
          response_ok \in MaterialResponses :
            execute_material_creation(goal_id, session_id, response_ok)
    /\ UNCHANGED <<roadmaps, goals, planned, authVars, auxVars, quizVars, chatVars, gradVars>>

PlanAction ==
    /\ \E session_id \in SessionIds : plan_action(session_id)
    /\ UNCHANGED <<roadmaps, goals, materials, toolResult, authVars, auxVars, quizVars,
                   chatVars, gradVars>>

InitRoadmap ==
    /\ roadmaps = <<>>
    /\ goals = <<>>
    /\ materials = <<>>
    /\ planned = [session_id |-> 0, has_roadmap |-> FALSE,
                  has_learning_materials |-> FALSE,
                  available_tools |-> <<>>, tool_definitions |-> <<>>]
    /\ toolResult = ToolOutcome("none", 0, "none", FALSE, 0, <<>>)

NextRoadmap ==
    \/ ExecuteRoadmapCreation
    \/ ExecuteRoadmapSkeletonEditing
    \/ ExecuteMaterialCreation
    \/ PlanAction

C6_AtMostOneRoadmap ==
    \A session_id \in SessionIds : Cardinality(RoadmapsOf(session_id)) <= 1

\* C14: a createRoadmapSkeleton execution for a session that already has a
\* roadmap answers with a roadmap of that session and its goals in
\* goal_number order, makes no LLM call, and adds no Roadmap or RoadmapGoal
\* row.
C14_SecondCreationReturnsExisting ==
    [][\A session_id \in SessionIds :
          ( /\ RoadmapsOf(session_id) # {}
            /\ \E response \in RoadmapResponses :
                    execute_roadmap_creation(session_id, response) )
          => /\ toolResult'.outcome = "existing"
             /\ ~toolResult'.llm_called
             /\ toolResult'.roadmap_id \in RoadmapsOf(session_id)
             /\ toolResult'.goals =
                    GoalNumbers(SortByGoalNumber(
                        {i \in DOMAIN goals : goals[i].roadmap_id = toolResult'.roadmap_id}))
             /\ \A i, j \in DOMAIN toolResult'.goals :
                    i < j => toolResult'.goals[i] <= toolResult'.goals[j]
             /\ roadmaps' = roadmaps
             /\ goals' = goals]_vars

\* A second creation answered the two goals of the first one, reordered.
C14_Witness ==
    /\ toolResult.outcome = "existing"
    /\ ~toolResult.llm_called
    /\ toolResult.goals = <<1, 2>>
    /\ Cardinality(RoadmapsOf(toolResult.session_id)) = 1
    /\ toolResult.roadmap_id \in RoadmapsOf(toolResult.session_id)

(***************************************************************************)
(* The streaming chat endpoint (routes/ai_actions.py, event_generator)     *)
(***************************************************************************)

MaxToolCalls == 2
MaxChatTurns == 1

\* Tool calls the model may return in its plan.  Nothing restricts them to
\* the tools that were offered; "summarizeCv" is a name the dispatcher does
\* not know.
ToolCallInputs ==
    { [tool_name |-> "createRoadmapSkeleton", goal_id |-> 0, generate_for_all_goals |-> FALSE],
      [tool_name |-> "editRoadmapSkeleton", goal_id |-> 0, generate_for_all_goals |-> FALSE],
      [tool_name |-> "createLearningMaterials", goal_id |-> 1, generate_for_all_goals |-> FALSE],
      [tool_name |-> "summarizeCv", goal_id |-> 0, generate_for_all_goals |-> FALSE] }

ToolCallPlans ==
    UNION {[1..n -> ToolCallInputs] : n \in 0..MaxToolCalls}

PlanOutcomes == {"ok", "ValueError", "Exception"}

format_sse_event(event_name, operation) ==
    [event |-> event_name, operation |-> operation]

get_tool_event_name(tool_name) ==
    CASE tool_name = "createRoadmapSkeleton"   -> "roadmap_skeleton"
      [] tool_name = "createLearningMaterials" -> "learning_materials"
      [] tool_name = "editRoadmapSkeleton"     -> "roadmap_skeleton"
      [] tool_name = "createQuizForGoal"       -> "quiz_for_goal"
      [] OTHER                                 -> "summarizecv"

\* The stream yields one event and the generator returns.
CloseWith(c, event) ==
    [c EXCEPT !.events = Append(@, event), !.pc = "closed"]

IdleChat ==
    [pc |-> "idle", turn |-> 0, session_id |-> 0, saved |-> <<>>, plan |-> "none",
     tool_calls |-> <<>>, next |-> 1, events |-> <<>>, raised |-> 0, not_found |-> FALSE]

\* An exception is raised inside the generator.
Raise(c) == [c EXCEPT !.raised = @ + 1]

\* The generator lets the exception go to the transport.
on_unexpected_exception_reraise(c) == [c EXCEPT !.pc = "propagated"]

\* The outermost except clause: one error event, then the generator ends.
on_unexpected_exception(c) == CloseWith(c, format_sse_event("error", ""))

\* A client opens POST /ai/sessions/{id}/chat.
ChatOpen ==
    /\ chat.pc \in {"idle", "closed"}
    /\ chat.turn < MaxChatTurns
    /\ \E session_id \in SessionIds :
          chat' = [IdleChat EXCEPT !.pc = "lookup", !.turn = chat.turn + 1,
                                   !.session_id = session_id]
    /\ UNCHANGED <<roadmapVars, authVars, auxVars, quizVars, gradVars>>

\* get_session: a missing session ends the stream with one error event; a
\* failing lookup is caught by the outermost except clause.
ChatLookupSession ==
    /\ chat.pc = "lookup"
    /\ \E lookup \in {"found", "missing", "raises"} :
          chat' = IF lookup = "found"
                  THEN [chat EXCEPT !.pc = "save_user"]
                  ELSE IF lookup = "missing"
                  THEN CloseWith([chat EXCEPT !.not_found = TRUE],
                                 format_sse_event("error", ""))
                  ELSE on_unexpected_exception(Raise(chat))
    /\ UNCHANGED <<roadmapVars, authVars, auxVars, quizVars, gradVars>>

\* add_message_to_session for the user message, in its own try block.
ChatSaveUserMessage ==
    /\ chat.pc = "save_user"
    /\ \E saved_ok \in BOOLEAN :
          chat' = IF saved_ok
                  THEN [chat EXCEPT !.saved = Append(@, "user"), !.pc = "plan"]
                  ELSE CloseWith(Raise(chat), format_sse_event("error", ""))
    /\ UNCHANGED <<roadmapVars, authVars, auxVars, quizVars, gradVars>>

\* plan_action, saving the assistant message and the master_prompt event,
\* up to the first suspension point.  A ValueError is raised before the
\* request is built; any other failure comes from the request itself.
ChatPlan ==
    /\ chat.pc = "plan"
    /\ \E outcome \in PlanOutcomes, tool_calls \in ToolCallPlans, saved_ok \in BOOLEAN :
          /\ IF outcome = "ValueError"
             THEN UNCHANGED planned
             ELSE plan_action(chat.session_id)
          /\ chat' =
               IF outcome # "ok"
               THEN CloseWith([Raise(chat) EXCEPT !.plan = outcome],
                              format_sse_event("error", ""))
               ELSE IF ~saved_ok
               THEN CloseWith([Raise(chat) EXCEPT !.plan = "Exception"],
                              format_sse_event("error", ""))
               ELSE [chat EXCEPT !.plan = "ok",
                                 !.saved = Append(@, "assistant"),
                                 !.tool_calls = tool_calls,
                                 !.events = Append(@, format_sse_event("master_prompt", "")),
                                 !.pc = "tools"]
    /\ UNCHANGED <<roadmaps, goals, materials, toolResult, authVars, auxVars, quizVars, gradVars>>

\* execute_tool_call awaits the dispatcher in the default executor.
ChatStartTool ==
    /\ chat.pc = "tools"
    /\ chat.next <= Len(chat.tool_calls)
    /\ chat' = [chat EXCEPT !.pc = "tool_running"]
    /\ UNCHANGED <<roadmapVars, authVars, auxVars, quizVars, gradVars>>

\* _execute_tool_call_sync: dispatch on the tool name.
execute_tool_call_sync(session_id, tool_call, response, response_ok) ==
    CASE tool_call.tool_name = "createRoadmapSkeleton" ->
            /\ execute_roadmap_creation(session_id, response)
            /\ UNCHANGED materials
      [] tool_call.tool_name = "editRoadmapSkeleton" ->
            /\ execute_roadmap_skeleton_editing(session_id, response)
            /\ UNCHANGED materials
      [] tool_call.tool_name = "createLearningMaterials" ->
            /\ execute_material_creation(tool_call.goal_id, session_id, response_ok)
            /\ UNCHANGED <<roadmaps, goals>>
      [] OTHER ->
            /\ toolResult' = ToolOutcome(tool_call.tool_name, session_id, "UnknownTool",
                                         FALSE, 0, <<>>)
            /\ UNCHANGED <<roadmaps, goals, materials>>

ToolSucceeded(result) == result.outcome \in {"existing", "created", "edited"}

\* The tool returned and the loop goes on without yielding its result event.
on_tool_result_deferred(c, tool_name) ==
    [c EXCEPT !.saved = Append(@, "assistant"),
              !.next = @ + 1,
              !.pc = "tools"]

\* The tool returned: its result event is yielded and the loop goes on.
on_tool_result(c, tool_name) ==
    [c EXCEPT !.saved = Append(@, "assistant"),
              !.events = Append(@, format_sse_event(get_tool_event_name(tool_name),
                                                    tool_name)),
              !.next = @ + 1,
              !.pc = "tools"]

on_tool_exception_abort(c, tool_name) ==
    CloseWith(c, format_sse_event("error", tool_name))

\* The tool raised: an error event naming the operation is yielded and the
\* loop goes on with the next tool call.
on_tool_exception(c, tool_name) ==
    [c EXCEPT !.events = Append(@, format_sse_event("error", tool_name)),
              !.next = @ + 1,
              !.pc = "tools"]

ChatToolFinish ==
    /\ chat.pc = "tool_running"
    /\ LET tool_call == chat.tool_calls[chat.next]
       IN  \E response \in RoadmapResponses, response_ok \in MaterialResponses,
              message_saved \in BOOLEAN :
              /\ execute_tool_call_sync(chat.session_id, tool_call, response, response_ok)
              /\ chat' = IF ToolSucceeded(toolResult') /\ message_saved
                         THEN on_tool_result(chat, tool_call.tool_name)
                         ELSE on_tool_exception(Raise(chat), tool_call.tool_name)
    /\ UNCHANGED <<planned, authVars, auxVars, quizVars, gradVars>>

\* After the last tool call the done event is yielded.
ChatDone ==
    /\ chat.pc = "tools"
    /\ chat.next > Len(chat.tool_calls)
    /\ chat' = CloseWith(chat, format_sse_event("done", ""))
    /\ UNCHANGED <<roadmapVars, authVars, auxVars, quizVars, gradVars>>

InitChat == chat = IdleChat

NextChat ==
    \/ ChatOpen
    \/ ChatLookupSession
    \/ ChatSaveUserMessage
    \/ ChatPlan
    \/ ChatStartTool
    \/ ChatToolFinish
    \/ ChatDone

LastEvent(c) == c.events[Len(c.events)]

DoneCount(c) == Cardinality({i \in DOMAIN c.events : c.events[i].event = "done"})

ErrorCount(c) == Cardinality({i \in DOMAIN c.events : c.events[i].event = "error"})

UserMessageSaved(c) == c.saved # <<>> /\ c.saved[1] = "user"

\* C7 (as stated): once the user message is saved, the closed stream has
\* done as its last event, whether or not planning or a tool failed.
C7_AlwaysDone ==
    (chat.pc = "closed" /\ UserMessageSaved(chat)) => LastEvent(chat).event = "done"

\* C7 (amended): once the user message is saved and planning succeeded, the
\* closed stream has exactly one done event and it is the last event,
\* whether or not a tool execution failed; when planning failed the stream
\* closes on an error event and carries no done event.
C7_DoneAfterPlanning ==
    (chat.pc = "closed" /\ UserMessageSaved(chat)) =>
        IF chat.plan = "ok"
        THEN LastEvent(chat).event = "done" /\ DoneCount(chat) = 1
        ELSE LastEvent(chat).event = "error" /\ DoneCount(chat) = 0

C7_Witness ==
    /\ chat.pc = "closed"
    /\ UserMessageSaved(chat)
    /\ chat.plan = "ok"
    /\ Len(chat.tool_calls) = 2
    /\ chat.events[2] = format_sse_event("error", chat.tool_calls[1].tool_name)
    /\ LastEvent(chat).event = "done"

\* C15: no exception raised while a chat-stream request is served leaves
\* the event generator: every exception raised so far has put one error
\* event on the stream (a missing session adds one more error event without
\* an exception).
C15_ExceptionsBecomeErrorEvents ==
    /\ chat.pc # "propagated"
    /\ ErrorCount(chat) = chat.raised + (IF chat.not_found THEN 1 ELSE 0)

\* The session lookup raised and the stream closed on the one error event.
C15_Witness ==
    /\ chat.pc = "closed"
    /\ chat.raised = 1
    /\ ~chat.not_found
    /\ chat.saved = <<>>
    /\ chat.events = <<format_sse_event("error", "")>>

\* The event the stream carries for tool call k once that call is over.
IsEventOfTool(event, tool_call) ==
    /\ event.operation = tool_call.tool_name
    /\ event.event \in {get_tool_event_name(tool_call.tool_name), "error"}

\* C21: within a chat turn master_prompt is on the stream before any tool
\* runs, the tool calls run one at a time in the order of the plan, and
\* tool k+1 runs only once the result or error event of tool k is on the
\* stream.
C21_ToolsInOrderAfterEvents ==
    chat.pc \in {"tools", "tool_running"} =>
        /\ chat.events # <<>>
        /\ chat.events[1].event = "master_prompt"
        /\ chat.next \in 1..(Len(chat.tool_calls) + 1)
        /\ Len(chat.events) = chat.next
        /\ \A k \in 1..(chat.next - 1) :
              IsEventOfTool(chat.events[k + 1], chat.tool_calls[k])

\* The second tool of a plan runs after the first one failed.
C21_Witness ==
    /\ chat.pc = "tool_running"
    /\ chat.next = 2
    /\ chat.events = <<format_sse_event("master_prompt", ""),
                       format_sse_event("error", chat.tool_calls[1].tool_name)>>
    /\ chat.tool_calls[1] # chat.tool_calls[2]

(***************************************************************************)
(* Graduation project questions and submissions                            *)
(* (routes/graduation_project.py, db_config/crud.py)                       *)
(***************************************************************************)

MaxGenerateCalls == 2
MaxAcceptedBatches == 2

RequiredAnswers == 5
DefaultAnswerMinChars == 500
DefaultAnswerMaxChars == 2500
MinEstimatedTime == 10
MaxEstimatedTime == 45

\* The graduation endpoints are called for session 1 and for session 3,
\* which is not in the sessions table.
GradSessionInputs == {1, 3}

Slugs == << "q1", "q2", "q3", "q4", "q5" >>

\* One element of the "questions" array of the model's answer.
QData(slug, minutes) ==
    [question_id |-> slug, estimated_time_minutes |-> minutes,
     has_answer_bounds |-> FALSE, answer_min_chars |-> 0, answer_max_chars |-> 0]

QDataBounded(slug, min_chars, max_chars) ==
    [question_id |-> slug, estimated_time_minutes |-> 30,
     has_answer_bounds |-> TRUE, answer_min_chars |-> min_chars,
     answer_max_chars |-> max_chars]

FiveQuestions == [k \in 1..5 |-> QData(Slugs[k], 30)]

\* Answers of the model to the question-generation prompt: a body that is
\* not JSON; five valid questions; five valid questions of which the first
\* carries its own length bounds; three valid questions; five questions of
\* which the third has an estimated time outside [10, 45]; six valid ones.
QuestionResponses ==
    { [ok |-> FALSE, questions |-> <<>>],
      [ok |-> TRUE,  questions |-> FiveQuestions],
      [ok |-> TRUE,  questions |-> [FiveQuestions EXCEPT ![1] = QDataBounded("q1", 100, 200)]],
      [ok |-> TRUE,  questions |-> SubSeq(FiveQuestions, 1, 3)],
      [ok |-> TRUE,  questions |-> [FiveQuestions EXCEPT ![3] = QData("q3", 60)]],
      [ok |-> TRUE,  questions |-> Append(FiveQuestions, QData("q6", 30))] }

\* What the database does with the submissions of a question that is deleted
\* by a bulk DELETE: the foreign key cascades, the foreign key refuses the
\* delete, or the rows stay (foreign keys not enforced).
OnDeleteOutcomes == {"cascade", "restrict", "none"}

\* The valid request body: one answer per question, the second at the upper
\* length bound and the others at the lower one.  A text is represented by
\* its length.
CanonicalBatch ==
    [k \in 1..5 |-> [question_id |-> Slugs[k],
                     text_len |-> IF k = 2 THEN DefaultAnswerMaxChars
                                  ELSE DefaultAnswerMinChars]]

\* Request bodies of the submit endpoint: the valid one and its variants
\* with one text too short or too long, a first text of 150 characters, an
\* unknown question_id, the same question answered twice, four answers and
\* six answers.
AnswerBatchInputs ==
    { CanonicalBatch }
    \cup { [CanonicalBatch EXCEPT ![3].text_len = l] :
              l \in {DefaultAnswerMinChars - 1, DefaultAnswerMaxChars + 1} }
    \cup { [CanonicalBatch EXCEPT ![1].text_len = 150] }
    \cup { [CanonicalBatch EXCEPT ![5].question_id = "unknown-question"] }
    \cup { [CanonicalBatch EXCEPT ![3].question_id = "q1"] }
    \cup { SubSeq(CanonicalBatch, 1, 4),
           Append(CanonicalBatch,
                  [question_id |-> "q1", text_len |-> DefaultAnswerMinChars]) }

get_session(session_id) == session_id \in SessionIds

\* get_graduation_project_questions_by_session
get_graduation_project_questions_by_session(session_id) ==
    SelectSeq(gradQuestions, LAMBDA q : q.session_id = session_id)

QuestionIdsOf(session_id) ==
    {q.id : q \in Range(get_graduation_project_questions_by_session(session_id))}

\* GraduationProjectQuestionSchema validation of one element.
question_schema_valid(q_data) ==
    /\ q_data.estimated_time_minutes >= MinEstimatedTime
    /\ q_data.estimated_time_minutes <= MaxEstimatedTime

\* The loop of generate_questions_from_session_data: an element that fails
\* validation is skipped, every other one becomes a row.
RECURSIVE create_questions(_, _, _, _, _)
create_questions(rows, next_id, session_id, batch, questions_data) ==
    IF questions_data = <<>> THEN rows
    ELSE LET q_data == Head(questions_data)
         IN  IF ~question_schema_valid(q_data)
             THEN create_questions(rows, next_id, session_id, batch, Tail(questions_data))
             ELSE create_questions(
                    Append(rows,
                        [id |-> next_id, session_id |-> session_id, batch |-> batch,
                         question_id |-> q_data.question_id,
                         answer_min_chars |->
                            IF q_data.has_answer_bounds THEN q_data.answer_min_chars
                            ELSE DefaultAnswerMinChars,
                         answer_max_chars |->
                            IF q_data.has_answer_bounds THEN q_data.answer_max_chars
                            ELSE DefaultAnswerMaxChars]),
                    next_id + 1, session_id, batch, Tail(questions_data))

GradOutcome(op, session_id, success, batch, answers, rows_before) ==
    [op |-> op, session_id |-> session_id, success |-> success, batch |-> batch,
     answers |-> answers, rows_before |-> rows_before]

\* delete_graduation_project_questions_by_session
delete_graduation_project_questions_by_session(session_id) ==
    SelectSeq(gradQuestions, LAMBDA q : q.session_id # session_id)

generate_graduation_questions(session_id, response, on_delete) ==
    \E roadmap \in get_roadmap_by_session(session_id) :
        LET failed == GradOutcome("generate", session_id, FALSE, gradCounters.batch,
                                  <<>>, Len(gradSubmissions))
            referenced == \E s \in Range(gradSubmissions) :
                              s.question_id \in QuestionIdsOf(session_id)
            batch == gradCounters.batch + 1
            remaining == delete_graduation_project_questions_by_session(session_id)
            created == create_questions(remaining, gradCounters.next_question_id,
                                        session_id, batch, response.questions)
        IN  IF \/ ~get_session(session_id)
               \/ roadmap = 0
               \/ get_goals_by_roadmap(roadmap) = <<>>
            THEN /\ gradResult' = failed
                 /\ UNCHANGED <<gradQuestions, gradSubmissions, gradCounters>>
            ELSE IF referenced /\ on_delete = "restrict"
            THEN /\ gradResult' = failed
                 /\ UNCHANGED <<gradQuestions, gradSubmissions, gradCounters>>
            ELSE /\ gradCounters.batch < MaxGenerateCalls
                 /\ gradSubmissions' =
                        IF on_delete = "cascade"
                        THEN SelectSeq(gradSubmissions,
                                LAMBDA s : s.question_id \notin QuestionIdsOf(session_id))
                        ELSE gradSubmissions
                 /\ IF ~response.ok
                    THEN /\ gradQuestions' = remaining
                         /\ gradCounters' = [gradCounters EXCEPT !.batch = batch]
                         /\ gradResult' = [failed EXCEPT !.batch = batch]
                    ELSE /\ gradQuestions' = created
                         /\ gradCounters' =
                                [batch |-> batch,
                                 next_question_id |-> gradCounters.next_question_id
                                                        + (Len(created) - Len(remaining))]
                         /\ gradResult' = GradOutcome("generate", session_id, TRUE, batch,
                                                      <<>>, Len(gradSubmissions))

\* question_map = {q.question_id: q for q in questions}: a later row with
\* the same slug replaces an earlier one.
question_map_keys(questions) == {q.question_id : q \in Range(questions)}

question_map_get(questions, slug) ==
    LET last == CHOOSE i \in DOMAIN questions :
                    /\ questions[i].question_id = slug
                    /\ \A j \in DOMAIN questions :
                            questions[j].question_id = slug => j <= i
    IN  questions[last]

validation_errors_without_maximum(answers, questions) ==
    {e \in (DOMAIN answers) \X {"invalid", "short"} :
        LET answer == answers[e[1]]
        IN  IF answer.question_id \notin question_map_keys(questions)
            THEN e[2] = "invalid"
            ELSE e[2] = "short" /\ answer.text_len <
                    question_map_get(questions, answer.question_id).answer_min_chars}

\* The validation loop of submit_graduation_answers: the errors it collects,
\* as (position of the answer, kind of error).
validation_errors(answers, questions) ==
    {e \in (DOMAIN answers) \X {"invalid", "short", "long"} :
        LET answer == answers[e[1]]
        IN  IF answer.question_id \notin question_map_keys(questions)
            THEN e[2] = "invalid"
            ELSE LET question == question_map_get(questions, answer.question_id)
                 IN  \/ e[2] = "short" /\ answer.text_len < question.answer_min_chars
                     \/ e[2] = "long"  /\ answer.text_len > question.answer_max_chars}

\* create_graduation_project_submission for every answer.  The evaluation
\* that follows only fills the evaluation_* columns, which the rows here do
\* not carry.
create_submissions(session_id, answers, questions) ==
    [k \in DOMAIN answers |->
        [session_id  |-> session_id,
         question_id |-> question_map_get(questions, answers[k].question_id).id,
         text_len    |-> answers[k].text_len]]

submit_graduation_answers(session_id, answers) ==
    LET questions == get_graduation_project_questions_by_session(session_id)
        rejected == GradOutcome("submit", session_id, FALSE, gradCounters.batch,
                                answers, Len(gradSubmissions))
    IN  IF \/ ~get_session(session_id)
           \/ Len(answers) # RequiredAnswers
           \/ Len(questions) # RequiredAnswers
           \/ validation_errors(answers, questions) # {}
        THEN /\ gradResult' = rejected
             /\ UNCHANGED gradSubmissions
        ELSE /\ Len(gradSubmissions) < RequiredAnswers * MaxAcceptedBatches
             /\ gradSubmissions' = gradSubmissions \o
                    create_submissions(session_id, answers, questions)
             /\ gradResult' = [rejected EXCEPT !.success = TRUE]

GenerateGraduationQuestions ==
    /\ \E session_id \in GradSessionInputs, response \in QuestionResponses,
          on_delete \in OnDeleteOutcomes :
            generate_graduation_questions(session_id, response, on_delete)
    /\ UNCHANGED <<roadmapVars, authVars, auxVars, quizVars, chatVars>>

SubmitGraduationAnswers ==
    /\ \E session_id \in GradSessionInputs, answers \in AnswerBatchInputs :
            submit_graduation_answers(session_id, answers)
    /\ UNCHANGED <<gradQuestions, gradCounters, roadmapVars, authVars, auxVars, quizVars, chatVars>>

InitGrad ==
    /\ gradQuestions = <<>>
    /\ gradSubmissions = <<>>
    /\ gradCounters = [batch |-> 0, next_question_id |-> 1]
    /\ gradResult = GradOutcome("none", 0, FALSE, 0, <<>>, 0)

\* The roadmap the graduation endpoints read is created by the roadmap tool;
\* here the model answers with a single goal.
CreateRoadmapForGraduation ==
    /\ \E session_id \in GradSessionInputs \cap SessionIds :
          execute_roadmap_creation(session_id,
              [ok |-> TRUE, goals |-> << [goal_number |-> 1, priority |-> 1] >>])
    /\ UNCHANGED <<materials, planned, authVars, auxVars, quizVars, chatVars, gradVars>>

NextGrad ==
    \/ CreateRoadmapForGraduation
    \/ GenerateGraduationQuestions
    \/ SubmitGraduationAnswers

SubmissionsOf(session_id) ==
    {i \in DOMAIN gradSubmissions : gradSubmissions[i].session_id = session_id}

\* The validation of the batch as the endpoint documents it, stated over the
\* request and the session's questions.
BatchFailsValidation(answers, session_id) ==
    LET questions == Range(get_graduation_project_questions_by_session(session_id))
    IN  \/ Len(answers) # 5
        \/ \E k \in DOMAIN answers :
              answers[k].question_id \notin {q.question_id : q \in questions}
        \/ \E k \in DOMAIN answers, q \in questions :
              /\ q.question_id = answers[k].question_id
              /\ \/ answers[k].text_len < q.answer_min_chars
                 \/ answers[k].text_len > q.answer_max_chars

\* C8: a submit request whose batch fails validation (size other than 5, a
\* question_id that is not one of the session's questions, a text length
\* outside the question's bounds) is refused and creates no submission row.
C8_NoPartialSubmission ==
    (gradResult.op = "submit"
        /\ BatchFailsValidation(gradResult.answers, gradResult.session_id))
    => (~gradResult.success /\ Len(gradSubmissions) = gradResult.rows_before)

C8_Witness ==
    /\ gradResult.op = "submit"
    /\ Len(gradResult.answers) = 5
    /\ Len(get_graduation_project_questions_by_session(gradResult.session_id)) = 5
    /\ \A k \in 1..5 : gradResult.answers[k].question_id = Slugs[k]
    /\ gradResult.answers[3].text_len = DefaultAnswerMaxChars + 1
    /\ ~gradResult.success
    /\ Len(gradSubmissions) = 5
    /\ gradResult.rows_before = 5

\* C9: a session with submissions has exactly 5 submission rows, each
\* referring to a different one of the session's questions.
C9_FivePerSession ==
    \A session_id \in SessionIds :
        SubmissionsOf(session_id) # {} =>
            /\ Cardinality(SubmissionsOf(session_id)) = 5
            /\ \A i, j \in SubmissionsOf(session_id) :
                  i # j => gradSubmissions[i].question_id # gradSubmissions[j].question_id
            /\ \A i \in SubmissionsOf(session_id) :
                  gradSubmissions[i].question_id \in QuestionIdsOf(session_id)

\* C10: after a generate-questions call that reports success the session
\* holds exactly 5 question rows, all created by that call.
C10_ExactlyFiveFromBatch ==
    (gradResult.op = "generate" /\ gradResult.success) =>
        LET questions == get_graduation_project_questions_by_session(gradResult.session_id)
        IN  /\ Len(questions) = 5
            /\ \A k \in DOMAIN questions : questions[k].batch = gradResult.batch

(***************************************************************************)
(* Bulk material generation (routes/ai_actions.py, _execute_tool_call_sync *)
(* with generate_for_all_goals)                                            *)
(***************************************************************************)

MaxBulkRuns == 1
MaxWorkers == 5

\* How one worker ends: the material is saved; SessionLocal() raises; the
\* generation raises (request, parsing, validation); or the material is
\* saved and closing the thread's session raises.
WorkerOutcomes == {"ok", "session_failed", "generation_failed", "close_failed"}

IdleBulk ==
    [pc |-> "idle", runs |-> 0, session_id |-> 0, goals |-> <<>>, worker |-> <<>>,
     materials_before |-> 0, completed |-> <<>>, materials |-> <<>>, errors |-> <<>>,
     response |-> [raised |-> FALSE, success_count |-> 0, total_count |-> 0]]

\* The roadmap the bulk generation works on: three goals, for session 1
\* (session 2 stays without a roadmap).
BulkCreateRoadmap ==
    /\ \E session_id \in {1} :
          execute_roadmap_creation(session_id,
              [ok |-> TRUE, goals |-> << [goal_number |-> 1, priority |-> 1],
                                         [goal_number |-> 2, priority |-> 3],
                                         [goal_number |-> 3, priority |-> 5] >>])
    /\ UNCHANGED <<bulk, cache, prompt, sessionMessages, health, attemptCalls,
                   groq, fallback, monitor, decisionMonitor, goalProgress, sessionRow, userSkills, materials, planned, authVars, quizVars, chatVars, gradVars>>

\* The tool call arrives: roadmap and goals are read and one future per goal
\* is submitted to the executor.
BulkStart ==
    /\ bulk.pc \in {"idle", "done"}
    /\ bulk.runs < MaxBulkRuns
    /\ \E session_id \in SessionIds : \E roadmap \in get_roadmap_by_session(session_id) :
          LET goal_ids == IF roadmap = 0 THEN <<>> ELSE get_goals_by_roadmap(roadmap)
              started == [IdleBulk EXCEPT !.runs = bulk.runs + 1,
                                          !.session_id = session_id,
                                          !.materials_before = Len(materials)]
          IN  bulk' = IF goal_ids = <<>>
                      THEN [started EXCEPT !.pc = "done", !.response.raised = TRUE]
                      ELSE [started EXCEPT !.pc = "running", !.goals = goal_ids,
                                           !.worker = [k \in DOMAIN goal_ids |-> "queued"]]
    /\ UNCHANGED <<cache, prompt, sessionMessages, health, attemptCalls, groq,
                   fallback, monitor, decisionMonitor, goalProgress, sessionRow,
                   userSkills, roadmapVars, authVars, quizVars, chatVars, gradVars>>

Running(b) == {k \in DOMAIN b.worker : b.worker[k] = "running"}

max_workers(b) == IF MaxWorkers < Len(b.goals) THEN MaxWorkers ELSE Len(b.goals)

\* A pool thread takes a queued future.
WorkerStart ==
    /\ bulk.pc = "running"
    /\ Cardinality(Running(bulk)) < max_workers(bulk)
    /\ \E k \in DOMAIN bulk.worker :
          /\ bulk.worker[k] = "queued"
          /\ bulk' = [bulk EXCEPT !.worker[k] = "running"]
    /\ UNCHANGED <<cache, prompt, sessionMessages, health, attemptCalls, groq,
                   fallback, monitor, decisionMonitor, goalProgress, sessionRow,
                   userSkills, roadmapVars, authVars, quizVars, chatVars, gradVars>>

\* create_material_for_goal in its thread, with its own database session:
\* execute_material_creation commits the material, any exception becomes a
\* failure result.  The future is then complete.
WorkerFinish ==
    /\ bulk.pc = "running"
    /\ \E k \in Running(bulk), outcome \in WorkerOutcomes :
          /\ materials' =
                IF outcome \in {"ok", "close_failed"}
                THEN Append(materials,
                        [goal_id |-> bulk.goals[k],
                         difficulty_level |-> goals[bulk.goals[k]].skill_level])
                ELSE materials
          /\ bulk' = [bulk EXCEPT !.worker[k] = IF outcome = "ok" THEN "ok" ELSE "failed",
                                  !.completed = Append(@, k)]
    /\ UNCHANGED <<cache, prompt, sessionMessages, health, attemptCalls, groq,
                   fallback, monitor, decisionMonitor, goalProgress, sessionRow,
                   userSkills, roadmaps, goals, planned, toolResult, authVars,
                   quizVars, chatVars, gradVars>>

Collected(b) == Range(b.materials) \cup Range(b.errors)

collect_result_first_error_only(b, k) ==
    IF b.worker[k] = "ok"
    THEN [b EXCEPT !.materials = Append(@, k)]
    ELSE IF b.errors = <<>> THEN [b EXCEPT !.errors = Append(@, k)]
    ELSE [b EXCEPT !.worker[k] = "dropped"]

\* One turn of the as_completed loop in the calling thread.
collect_result(b, k) ==
    IF b.worker[k] = "ok"
    THEN [b EXCEPT !.materials = Append(@, k)]
    ELSE [b EXCEPT !.errors = Append(@, k)]

\* as_completed hands over a finished future that was not handed over yet.
BulkCollect ==
    /\ bulk.pc = "running"
    /\ \E k \in Range(bulk.completed) \ Collected(bulk) :
          /\ bulk.worker[k] \in {"ok", "failed"}
          /\ bulk' = collect_result(bulk, k)
    /\ UNCHANGED <<cache, prompt, sessionMessages, health, attemptCalls, groq,
                   fallback, monitor, decisionMonitor, goalProgress, sessionRow,
                   userSkills, roadmapVars, authVars, quizVars, chatVars, gradVars>>

AllHandedOver(b) ==
    \A k \in DOMAIN b.worker : k \in Collected(b) \/ b.worker[k] = "dropped"

\* After the loop: the summary message is saved and the result returned; a
\* failing save raises out of the tool.
BulkFinish ==
    /\ bulk.pc = "running"
    /\ AllHandedOver(bulk)
    /\ \E message_saved \in BOOLEAN :
          bulk' = [bulk EXCEPT
                      !.pc = "done",
                      !.response = [raised |-> ~message_saved,
                                    success_count |-> IF message_saved
                                                      THEN Len(bulk.materials) ELSE 0,
                                    total_count |-> IF message_saved
                                                    THEN Len(bulk.goals) ELSE 0]]
    /\ UNCHANGED <<cache, prompt, sessionMessages, health, attemptCalls, groq,
                   fallback, monitor, decisionMonitor, goalProgress, sessionRow,
                   userSkills, roadmapVars, authVars, quizVars, chatVars, gradVars>>

InitBulk == bulk = IdleBulk

NextBulk ==
    \/ BulkCreateRoadmap
    \/ BulkStart
    \/ WorkerStart
    \/ WorkerFinish
    \/ BulkCollect
    \/ BulkFinish

FailedGoals(b) == {k \in DOMAIN b.worker : b.worker[k] # "ok"}

PersistedInRun(b, k) ==
    \E m \in (b.materials_before + 1)..Len(materials) : materials[m].goal_id = b.goals[k]

\* C11: when the bulk generation has answered, every goal whose generation
\* did not fail has a material persisted in this run, success_count is
\* n - |F|, total_count is n and the errors hold exactly one entry for
\* each goal of F, whatever F is and in whatever order the workers finished.
C11_BulkReport ==
    (bulk.pc = "done" /\ ~bulk.response.raised) =>
        LET n == Len(bulk.goals)
            F == FailedGoals(bulk)
        IN  /\ \A k \in (1..n) \ F : PersistedInRun(bulk, k)
            /\ bulk.response.success_count = n - Cardinality(F)
            /\ bulk.response.total_count = n
            /\ \A k \in 1..n :
                  Cardinality({i \in DOMAIN bulk.errors : bulk.errors[i] = k})
                      = IF k \in F THEN 1 ELSE 0

C11_Witness ==
    /\ bulk.pc = "done"
    /\ ~bulk.response.raised
    /\ Len(bulk.goals) = 3
    /\ FailedGoals(bulk) = {2}
    /\ bulk.completed = <<3, 2, 1>>
    /\ bulk.response.success_count = 2
    /\ bulk.errors = <<2>>

(***************************************************************************)
(* The caching service: store with duplicate pre-check, delete             *)
(* (caching/routes/cache.py, caching/services/qdrant_client.py)            *)
(***************************************************************************)

MaxCacheIds == 3

\* Thresholds and scores are in hundredths.
DuplicateScoreThreshold == 95
NearDuplicateScore == 98
DuplicateCheckLimit == 5

\* Materials a client may send: a title and a content.
MaterialInputs ==
    { [title |-> "Case Test Material",  content |-> "test content"],
      [title |-> "CASE TEST MATERIAL",  content |-> "TEST CONTENT"],
      [title |-> "CASE TEST MATERIAL!", content |-> "TEST CONTENT"],
      [title |-> "Python Basics",       content |-> "variables and loops"] }

\* str.strip().lower() on the strings above.
strip_lower(s) ==
    CASE s = "Case Test Material"  -> "case test material"
      [] s = "CASE TEST MATERIAL"  -> "case test material"
      [] s = "CASE TEST MATERIAL!" -> "case test material!"
      [] s = "Python Basics"       -> "python basics"
      [] s = "test content"        -> "test content"
      [] s = "TEST CONTENT"        -> "test content"
      [] OTHER                     -> s

\* The configured sentence-embedding model either folds case before it
\* encodes or does not.
EmbeddingModels == {"uncased", "cased"}

\* Cosine similarity of the embeddings of two materials under a model.  The
\* scores of the cased model are the cosines of 16, 8 and 24 degrees between
\* three vectors of one plane.
similarity(model, a, b) ==
    LET lower == "Case Test Material"
        upper == "CASE TEST MATERIAL"
        bang  == "CASE TEST MATERIAL!"
        pair  == {a.title, b.title}
    IN  IF a = b THEN 100
        ELSE IF pair = {lower, upper} THEN (IF model = "uncased" THEN 100 ELSE 96)
        ELSE IF pair = {upper, bang} THEN 99
        ELSE IF pair = {lower, bang} THEN (IF model = "uncased" THEN 99 ELSE 91)
        ELSE 40

PointOf(c, id) == CHOOSE p \in Range(c.points) : p.id = id

\* QdrantClientService.search_similar: the hits at or above the threshold,
\* best first, at most `limit` of them; hits of equal score come in any order.
search_similar(c, material, limit, score_threshold) ==
    LET hits == {p.id : p \in {q \in Range(c.points) :
                        similarity(c.model, q.material, material) >= score_threshold}}
        score(id) == similarity(c.model, PointOf(c, id).material, material)
        k == IF Cardinality(hits) < limit THEN Cardinality(hits) ELSE limit
    IN  {r \in [1..k -> hits] :
            /\ \A i, j \in 1..k : i < j => (r[i] # r[j] /\ score(r[i]) >= score(r[j]))
            /\ \A h \in hits \ Range(r) : \A i \in 1..k : score(h) <= score(r[i])}

is_exact_match(existing, material) ==
    /\ strip_lower(existing.title) = strip_lower(material.title)
    /\ strip_lower(existing.content) = strip_lower(material.content)

\* The loop over duplicate_results: the first result that is an exact match
\* or scores at least 0.98 ends the request.
RECURSIVE duplicate_verdict(_, _, _)
duplicate_verdict(c, material, results) ==
    IF results = <<>> THEN "none"
    ELSE LET existing == PointOf(c, Head(results)).material
         IN  IF is_exact_match(existing, material) THEN "exact"
             ELSE IF similarity(c.model, existing, material) >= NearDuplicateScore
             THEN "near-duplicate"
             ELSE duplicate_verdict(c, material, Tail(results))

Neighbours(c, material, results) ==
    [i \in DOMAIN results |->
        [material |-> PointOf(c, results[i]).material,
         score |-> similarity(c.model, PointOf(c, results[i]).material, material)]]

CacheOutcome(op, status, match_type, material, neighbours, id, existed) ==
    [op |-> op, status |-> status, match_type |-> match_type, material |-> material,
     neighbours |-> neighbours, id |-> id, existed |-> existed]

NoMaterial == [title |-> "", content |-> ""]

\* POST /cache/store
store_material(material, upsert_ok) ==
    \E duplicate_results \in search_similar(cache, material, DuplicateCheckLimit,
                                            DuplicateScoreThreshold) :
        LET verdict == duplicate_verdict(cache, material, duplicate_results)
            seen == Neighbours(cache, material, duplicate_results)
        IN  IF verdict # "none"
            THEN cache' = [cache EXCEPT !.result =
                              CacheOutcome("store", 409, verdict, material, seen, 0, FALSE)]
            ELSE IF ~upsert_ok
            THEN cache' = [cache EXCEPT !.result =
                              CacheOutcome("store", 500, "none", material, seen, 0, FALSE)]
            ELSE /\ cache.next_id <= MaxCacheIds
                 /\ cache' = [cache EXCEPT
                        !.points = Append(@, [id |-> cache.next_id, material |-> material]),
                        !.next_id = @ + 1,
                        !.result = CacheOutcome("store", 201, "none", material, seen,
                                                cache.next_id, FALSE)]

\* QdrantClientService.delete_material: the delete of the vector store
\* succeeds whether or not the point exists; only an exception (connection,
\* malformed id) makes it answer False.
qdrant_delete_material(c, material_id, client_raises) ==
    IF client_raises THEN [success |-> FALSE, points |-> c.points]
    ELSE [success |-> TRUE,
          points |-> SelectSeq(c.points, LAMBDA p : p.id # material_id)]

\* DELETE /cache/material/{material_id}
delete_material(material_id, client_raises) ==
    LET deleted == qdrant_delete_material(cache, material_id, client_raises)
        existed == \E p \in Range(cache.points) : p.id = material_id
    IN  cache' = [cache EXCEPT
                    !.points = deleted.points,
                    !.result = CacheOutcome("delete",
                                    IF deleted.success THEN 204 ELSE 404,
                                    "none", NoMaterial, <<>>, material_id, existed)]

StoreMaterial ==
    /\ \E material \in MaterialInputs, upsert_ok \in BOOLEAN :
          store_material(material, upsert_ok)
    /\ UNCHANGED <<bulk, prompt, sessionMessages, health, attemptCalls, groq, fallback,
                   monitor, decisionMonitor, goalProgress, sessionRow, userSkills,
                   roadmapVars, authVars, quizVars, chatVars, gradVars>>

DeleteMaterial ==
    /\ \E material_id \in 1..MaxCacheIds, client_raises \in BOOLEAN :
          delete_material(material_id, client_raises)
    /\ UNCHANGED <<bulk, prompt, sessionMessages, health, attemptCalls, groq, fallback,
                   monitor, decisionMonitor, goalProgress, sessionRow, userSkills,
                   roadmapVars, authVars, quizVars, chatVars, gradVars>>

\* Settings.embedding_model: read from the environment when the service
\* starts, before anything is stored; the default model folds case.
ConfigureEmbeddingModel ==
    /\ cache.points = <<>>
    /\ cache.next_id = 1
    /\ cache.result.op = "none"
    /\ \E model \in EmbeddingModels : cache' = [cache EXCEPT !.model = model]
    /\ UNCHANGED <<bulk, prompt, sessionMessages, health, attemptCalls, groq, fallback,
                   monitor, decisionMonitor, goalProgress, sessionRow, userSkills,
                   roadmapVars, authVars, quizVars, chatVars, gradVars>>

InitCache ==
    cache = [model |-> "uncased", points |-> <<>>, next_id |-> 1,
             result |-> CacheOutcome("none", 0, "none", NoMaterial, <<>>, 0, FALSE)]

NextCache ==
    \/ ConfigureEmbeddingModel
    \/ StoreMaterial
    \/ DeleteMaterial

\* C12: a store request fails with Conflict "exact" when any returned
\* neighbour matches title and content case-insensitively, with Conflict
\* "near-duplicate" only when no returned neighbour is an exact match and one
\* scores at least 0.98, and otherwise stores the material.
C12_ExactBeforeNearDuplicate ==
    (cache.result.op = "store" /\ cache.result.status # 500) =>
        LET seen == cache.result.neighbours
            some_exact == \E i \in DOMAIN seen :
                              is_exact_match(seen[i].material, cache.result.material)
            some_near == \E i \in DOMAIN seen : seen[i].score >= 98
        IN  /\ some_exact =>
                (cache.result.status = 409 /\ cache.result.match_type = "exact")
            /\ cache.result.match_type = "near-duplicate" =>
                (cache.result.status = 409 /\ ~some_exact /\ some_near)
            /\ (~some_exact /\ ~some_near) => cache.result.status = 201

\* C18: DELETE answers 404 when no material with the id is stored and 204
\* only when a stored material was removed.
C18_DeleteStatus ==
    cache.result.op = "delete" =>
        /\ ~cache.result.existed => cache.result.status = 404
        /\ cache.result.status = 204 =>
              /\ cache.result.existed
              /\ \A p \in Range(cache.points) : p.id # cache.result.id

(***************************************************************************)
(* Prompt templates (models/Prompt.py, utils/prompt_loader.py)             *)
(***************************************************************************)

MaxPromptInstances == 3

\* A message content is a sequence of pieces: literal text, a placeholder
\* {{key}} (spaced = FALSE) or {{ key }} (spaced = TRUE).
Text(s) == [kind |-> "text", text |-> s, key |-> "", spaced |-> FALSE]
Placeholder(key, spaced) == [kind |-> "placeholder", text |-> "", key |-> key, spaced |-> spaced]

\* The YAML files of the prompts directory, one message each.
PromptFiles ==
    [name \in {"master.prompt.yaml", "quiz.prompt.yaml"} |->
        IF name = "master.prompt.yaml"
        THEN <<Text("You are a tutor."), Placeholder("content", FALSE),
               Placeholder("userPrompt", TRUE)>>
        ELSE <<Placeholder("userPrompt", FALSE), Text("Write a quiz.")>>]

PromptNames == {"master", "quiz", "missing"}

\* The variable maps handed to Prompt(name, format).
PromptFormats ==
    [{"content", "userPrompt"} -> {"hello", "world"}] \cup [{"userPrompt"} -> {"hello", "world"}]

\* PromptLoader.load_prompts: parses the files once; later calls answer the
\* cached dictionary.
load_prompts(loader) ==
    IF loader.prompts_loaded THEN loader
    ELSE [prompts_loaded |-> TRUE, prompts |-> PromptFiles]

\* PromptLoader.get_prompt: the file name looked up; the caller receives the
\* cached object itself, not a copy.
get_prompt(name) == name \o ".prompt.yaml"

\* Prompt._fill_variables on one message content: str.replace of {{key}} and
\* {{ key }} for every key of the format.
fill_variables(content, format) ==
    [i \in DOMAIN content |->
        IF content[i].kind = "placeholder" /\ content[i].key \in DOMAIN format
        THEN Text(format[content[i].key])
        ELSE content[i]]


\* Prompt(name, format): _fetch_prompt, then _fill_variables, which assigns
\* into the messages of the object the loader returned.
NewPrompt ==
    /\ Len(prompt.instances) < MaxPromptInstances
    /\ \E name \in PromptNames, format \in PromptFormats :
          LET loader == load_prompts(prompt.loader)
              file == get_prompt(name)
          IN  IF file \notin DOMAIN loader.prompts
              THEN prompt' = [prompt EXCEPT !.loader = loader]
              ELSE prompt' = [prompt EXCEPT
                      !.loader = [loader EXCEPT !.prompts[file] =
                                     fill_variables(loader.prompts[file], format)],
                      !.instances = Append(@, [name |-> name, format |-> format,
                                               prompt_data |-> file])]
    /\ UNCHANGED <<bulk, cache, sessionMessages, health, attemptCalls, groq, fallback,
                   monitor, decisionMonitor, goalProgress, sessionRow, userSkills,
                   roadmapVars, authVars, quizVars, chatVars, gradVars>>

\* Prompt.get_messages: prompt_data is the loader's object.
get_messages(p, i) == p.loader.prompts[p.instances[i].prompt_data]

InitPrompt ==
    prompt = [loader |-> [prompts_loaded |-> FALSE, prompts |-> << >>], instances |-> <<>>]

NextPrompt == NewPrompt

\* C13: every Prompt instance's messages hold the values of its own variable
\* map wherever the template file has a placeholder for a supplied variable,
\* and no placeholder for a supplied variable.
C13_OwnValuesRendered ==
    \A i \in DOMAIN prompt.instances :
        LET inst == prompt.instances[i]
            template == PromptFiles[inst.prompt_data]
            messages == get_messages(prompt, i)
        IN  \A k \in DOMAIN template :
                (template[k].kind = "placeholder" /\ template[k].key \in DOMAIN inst.format)
                    => messages[k] = Text(inst.format[template[k].key])

(***************************************************************************)
(* Session message history (db_config/crud.py, message operations)         *)
(***************************************************************************)

MaxMessages == 2

\* Session 1 exists, session 3 does not.
MessageSessionInputs == {1, 3}

MessageInputs ==
    [role : {"user", "assistant"}, content : {"a", "b"}, updated : {FALSE}]

MessageOutcome(op, session_id, arg, before, returned, raised) ==
    [op |-> op, session_id |-> session_id, arg |-> arg, before |-> before, returned |-> returned, raised |-> raised]

\* list[start:] for a start index that may be negative.
python_slice_from(list, start) ==
    LET from_front == IF start < 0 THEN start + Len(list) ELSE start
        first == IF from_front < 0 THEN 0
                 ELSE IF from_front > Len(list) THEN Len(list) ELSE from_front
    IN  SubSeq(list, first + 1, Len(list))

\* list[:stop] for a stop index that is not negative.
python_slice_to(list, stop) ==
    SubSeq(list, 1, IF stop > Len(list) THEN Len(list) ELSE stop)

\* list.pop(index): negative indices count from the end; an index outside
\* the list raises IndexError.
python_pop(list, index) ==
    LET position == IF index < 0 THEN index + Len(list) ELSE index
    IN  IF position < 0 \/ position >= Len(list)
        THEN [raised |-> TRUE, list |-> list]
        ELSE [raised |-> FALSE,
              list |-> SubSeq(list, 1, position) \o SubSeq(list, position + 2, Len(list))]

\* add_message_to_session: append, flag_modified, commit.
add_message_to_session(session_id, message, commit_ok) ==
    IF session_id # 1 \/ ~commit_ok
    THEN sessionMessages' = [sessionMessages EXCEPT
            !.result = MessageOutcome("add", session_id, 0, sessionMessages.stored, <<>>, TRUE)]
    ELSE sessionMessages' = [sessionMessages EXCEPT
            !.stored = Append(@, message),
            !.appended = Append(@, message),
            !.result = MessageOutcome("add", session_id, 0, sessionMessages.stored,
                                      Append(sessionMessages.stored, message), FALSE)]

get_session_messages_oldest_first(session_id, limit) ==
    IF session_id # 1 THEN <<>>
    ELSE IF limit # 0 /\ limit > 0 THEN python_slice_to(sessionMessages.stored, limit)
    ELSE sessionMessages.stored

\* get_session_messages without a role filter: messages[-limit:] when the
\* limit is truthy and positive, the whole list otherwise.
get_session_messages(session_id, limit) ==
    IF session_id # 1 THEN <<>>
    ELSE IF limit # 0 /\ limit > 0 THEN python_slice_from(sessionMessages.stored, 0 - limit)
    ELSE sessionMessages.stored

get_last_n_messages(session_id, n) == get_session_messages(session_id, n)

delete_message_unchecked(session_id, message_index, commit_ok) ==
    LET popped == python_pop(sessionMessages.stored, message_index)
    IN  IF session_id # 1 \/ popped.raised \/ ~commit_ok
        THEN sessionMessages' = [sessionMessages EXCEPT
                !.result = MessageOutcome("delete", session_id, message_index, sessionMessages.stored,
                                          <<>>, TRUE)]
        ELSE sessionMessages' = [sessionMessages EXCEPT
                !.stored = popped.list,
                !.result = MessageOutcome("delete", session_id, message_index, sessionMessages.stored,
                                          popped.list, FALSE)]

\* delete_message_from_session: pops only when the list is not empty and
\* 0 <= message_index < len; otherwise the session is returned as it is.
delete_message_from_session(session_id, message_index, commit_ok) ==
    LET messages == sessionMessages.stored
    IN  IF session_id # 1
        THEN sessionMessages' = [sessionMessages EXCEPT
                !.result = MessageOutcome("delete", session_id, message_index, messages, <<>>, TRUE)]
        ELSE IF messages # <<>> /\ 0 <= message_index /\ message_index < Len(messages)
        THEN IF commit_ok
             THEN sessionMessages' = [sessionMessages EXCEPT
                    !.stored = python_pop(messages, message_index).list,
                    !.result = MessageOutcome("delete", session_id, message_index, messages,
                                    python_pop(messages, message_index).list, FALSE)]
             ELSE sessionMessages' = [sessionMessages EXCEPT
                    !.result = MessageOutcome("delete", session_id, message_index, messages, <<>>, TRUE)]
        ELSE sessionMessages' = [sessionMessages EXCEPT
                !.result = MessageOutcome("delete", session_id, message_index, messages, messages, FALSE)]

\* update_message_in_session with a new content: same range check, then the
\* content and updated_at of the message are assigned.
update_message_in_session(session_id, message_index, content, commit_ok) ==
    LET messages == sessionMessages.stored
    IN  IF session_id # 1
        THEN sessionMessages' = [sessionMessages EXCEPT
                !.result = MessageOutcome("update", session_id, message_index, messages, <<>>, TRUE)]
        ELSE IF messages # <<>> /\ 0 <= message_index /\ message_index < Len(messages)
        THEN IF commit_ok
             THEN LET updated == [messages EXCEPT ![message_index + 1].content = content,
                                                  ![message_index + 1].updated = TRUE]
                  IN  sessionMessages' = [sessionMessages EXCEPT
                        !.stored = updated,
                        !.result = MessageOutcome("update", session_id, message_index, messages,
                                                  updated, FALSE)]
             ELSE sessionMessages' = [sessionMessages EXCEPT
                    !.result = MessageOutcome("update", session_id, message_index, messages, <<>>, TRUE)]
        ELSE sessionMessages' = [sessionMessages EXCEPT
                !.result = MessageOutcome("update", session_id, message_index, messages, messages, FALSE)]

AddMessageToSession ==
    /\ Len(sessionMessages.appended) < MaxMessages
    /\ \E session_id \in MessageSessionInputs, message \in MessageInputs, commit_ok \in BOOLEAN :
          add_message_to_session(session_id, message, commit_ok)
    /\ UNCHANGED <<bulk, cache, prompt, health, attemptCalls, groq, fallback, monitor,
                   decisionMonitor, goalProgress, sessionRow, userSkills, roadmapVars,
                   authVars, quizVars, chatVars, gradVars>>

GetLastNMessages ==
    /\ \E session_id \in MessageSessionInputs, n \in 0..(MaxMessages + 1) :
          sessionMessages' = [sessionMessages EXCEPT
              !.result = MessageOutcome("get_last_n", session_id, n,
                            IF session_id = 1 THEN sessionMessages.stored ELSE <<>>,
                            get_last_n_messages(session_id, n), FALSE)]
    /\ UNCHANGED <<bulk, cache, prompt, health, attemptCalls, groq, fallback, monitor,
                   decisionMonitor, goalProgress, sessionRow, userSkills, roadmapVars,
                   authVars, quizVars, chatVars, gradVars>>

DeleteMessageFromSession ==
    /\ \E session_id \in MessageSessionInputs, message_index \in (0 - 2)..MaxMessages,
          commit_ok \in BOOLEAN :
          delete_message_from_session(session_id, message_index, commit_ok)
    /\ UNCHANGED <<bulk, cache, prompt, health, attemptCalls, groq, fallback, monitor,
                   decisionMonitor, goalProgress, sessionRow, userSkills, roadmapVars,
                   authVars, quizVars, chatVars, gradVars>>

UpdateMessageInSession ==
    /\ \E session_id \in MessageSessionInputs, message_index \in (0 - 2)..MaxMessages,
          content \in {"c"}, commit_ok \in BOOLEAN :
          update_message_in_session(session_id, message_index, content, commit_ok)
    /\ UNCHANGED <<bulk, cache, prompt, health, attemptCalls, groq, fallback, monitor,
                   decisionMonitor, goalProgress, sessionRow, userSkills, roadmapVars,
                   authVars, quizVars, chatVars, gradVars>>

InitMessages ==
    sessionMessages = [stored |-> <<>>, appended |-> <<>>,
                       result |-> MessageOutcome("none", 0, 0, <<>>, <<>>, FALSE)]

\* Appends and reads only.
NextMessageLog ==
    \/ AddMessageToSession
    \/ GetLastNMessages

\* Appends and index-based edits.
NextMessageEdit ==
    \/ AddMessageToSession
    \/ DeleteMessageFromSession
    \/ UpdateMessageInSession

Min(a, b) == IF a < b THEN a ELSE b

C17_OutOfRangeIsNoOp ==
    LET res == sessionMessages.result
    IN  ( /\ res.op \in {"delete", "update"}
          /\ res.session_id = 1
          /\ (res.arg < 0 \/ res.arg >= Len(res.before)) )
        => /\ ~res.raised
           /\ res.returned = res.before
           /\ sessionMessages.stored = res.before

\* A delete at index -1 on a list of two messages changed nothing.
C17_Witness ==
    /\ sessionMessages.result.op = "delete"
    /\ sessionMessages.result.session_id = 1
    /\ sessionMessages.result.arg = 0 - 1
    /\ Len(sessionMessages.result.before) = 2
    /\ ~sessionMessages.result.raised
    /\ sessionMessages.stored = sessionMessages.result.before

(***************************************************************************)
(* GET /health (main.py, db_config/database.py)                            *)
(***************************************************************************)

MaxHealthChecks == 3

\* Where the database fails during one health check, if anywhere.
HealthFailures == {"none", "init_db", "session", "probe", "commit"}

\* What the framework sends for a handler that returned a body, and for one
\* that raised.
HealthResponse(failure, raised, body_status) ==
    [failure |-> failure, raised |-> raised,
     status_code |-> IF raised THEN 500 ELSE 200,
     body_status |-> IF raised THEN "none" ELSE body_status]

\* get_db_context: SessionLocal(), the body, commit on normal exit, rollback
\* and re-raise on an exception, close in every case.  A return statement in
\* the body leaves through the commit; `exit_commit_ok` says whether that
\* commit succeeds.
get_db_context(failure, body_status, exit_commit_ok) ==
    IF failure = "session" THEN HealthResponse(failure, TRUE, "none")
    ELSE IF ~exit_commit_ok THEN HealthResponse(failure, TRUE, "none")
    ELSE HealthResponse(failure, FALSE, body_status)

\* health_check: init_db() outside any try, then the probe inside the
\* context manager; only the probe has an except clause.
health_check(failure, exit_commit_ok) ==
    IF failure = "init_db" THEN HealthResponse(failure, TRUE, "none")
    ELSE get_db_context(failure,
                        IF failure = "probe" THEN "error" ELSE "ok",
                        exit_commit_ok)

HealthCheck ==
    /\ Len(health) < MaxHealthChecks
    /\ \E failure \in HealthFailures, commit_after_probe_failure_ok \in BOOLEAN :
          health' = Append(health,
                       health_check(failure,
                           IF failure = "commit" THEN FALSE
                           ELSE IF failure = "probe" THEN commit_after_probe_failure_ok
                           ELSE TRUE))
    /\ UNCHANGED <<bulk, cache, prompt, sessionMessages, attemptCalls, groq, fallback,
                   monitor, decisionMonitor, goalProgress, sessionRow, userSkills,
                   roadmapVars, authVars, quizVars, chatVars, gradVars>>

InitHealth == health = <<>>

NextHealth == HealthCheck

\* C19: every health check is answered with status 200 and a body whose
\* status is ok or error; a failure of the schema initialisation, of opening
\* the session, of the probe query or of the commit on exit is reported as
\* status error in the body and never raised.
C19_HealthAlwaysAnswers ==
    \A i \in DOMAIN health :
        /\ ~health[i].raised
        /\ health[i].status_code = 200
        /\ health[i].body_status \in {"ok", "error"}
        /\ health[i].failure # "none" => health[i].body_status = "error"

(***************************************************************************)
(* create_quiz_attempt called by several requests at once                  *)
(* (db_config/crud.py; no lock, each call on its own database session)     *)
(***************************************************************************)

MaxCallers == 3

Callers == 1..MaxCallers

IdleCall == [pc |-> "idle", user_id |-> "none", has_last |-> FALSE, last_number |-> 0]

\* The first statement of create_quiz_attempt: the query for the last
\* attempt of (quiz 1, user), kept in the call's local variable.
AttemptQuery ==
    /\ \E c \in Callers, user_id \in Users :
          /\ attemptCalls[c].pc = "idle"
          /\ attemptCalls' = [attemptCalls EXCEPT ![c] =
                [pc |-> "queried", user_id |-> user_id,
                 has_last |-> AttemptsOf(1, user_id) # {},
                 last_number |-> last_attempt_number(1, user_id)]]
    /\ UNCHANGED <<bulk, cache, prompt, sessionMessages, health, groq, fallback,
                   monitor, decisionMonitor, goalProgress, sessionRow, userSkills,
                   roadmapVars, authVars, quizVars, chatVars, gradVars>>

\* The rest of create_quiz_attempt: the limit check on the row read before,
\* then db.add and db.commit, which the database may refuse.
AttemptInsert ==
    /\ \E c \in Callers, commit_ok \in BOOLEAN :
          LET call == attemptCalls[c]
              attempt_number == IF call.has_last THEN call.last_number + 1 ELSE 1
          IN  /\ call.pc = "queried"
              /\ IF max_attempts_exceeded(call.has_last, call.last_number, quiz.max_attempts)
                 THEN /\ attemptCalls' = [attemptCalls EXCEPT ![c].pc = "LimitExceeded"]
                      /\ UNCHANGED attempts
                 ELSE IF ~commit_ok
                 THEN /\ attemptCalls' = [attemptCalls EXCEPT ![c].pc = "failed"]
                      /\ UNCHANGED attempts
                 ELSE /\ Len(attempts) < MaxAttemptRows
                      /\ attemptCalls' = [attemptCalls EXCEPT ![c].pc = "created"]
                      /\ attempts' = Append(attempts,
                            [quiz_id |-> 1, user_id |-> call.user_id,
                             attempt_number |-> attempt_number,
                             total_questions |-> Len(quiz.questions),
                             status |-> "in_progress", correct_answers |-> 0,
                             score_percentage |-> [num |-> 0, den |-> 1],
                             passed |-> FALSE, answers |-> <<>>])
    /\ UNCHANGED <<bulk, cache, prompt, sessionMessages, health, groq, fallback,
                   monitor, decisionMonitor, goalProgress, sessionRow, userSkills,
                   quiz, quizResult, roadmapVars, authVars, chatVars, gradVars>>

InitAttemptCalls == attemptCalls = [c \in Callers |-> IdleCall]

NextAttemptRace ==
    \/ AttemptQuery
    \/ AttemptInsert

\* C20: whatever the interleaving of the calls, the attempts stored for one
\* (quiz, user) have pairwise distinct attempt numbers and are at most
\* max_attempts.
C20_DistinctAndBounded ==
    \A user_id \in Users :
        /\ \A i, j \in AttemptsOf(1, user_id) :
              i # j => attempts[i].attempt_number # attempts[j].attempt_number
        /\ Cardinality(AttemptsOf(1, user_id)) <= quiz.max_attempts

(***************************************************************************)
(* The hosted-API client's retry wrapper (utils/groq_client.py)            *)
(***************************************************************************)

MaxRetries == 6

RATE_LIMIT_DELAY == 1
MaxBackoffDelay == 30

\* Exceptions of the API call: their kind and the words of str(exception).
ApiErrors ==
    { [kind |-> "authentication", message |-> <<"401", "Unauthorized">>],
      [kind |-> "authentication", message |-> <<"Invalid", "API", "Key", "invalid_api_key">>],
      [kind |-> "permission",     message |-> <<"403", "Forbidden">>],
      [kind |-> "bad_request",    message |-> <<"400", "Bad", "Request">>],
      [kind |-> "bad_request",    message |-> <<"invalid_request_error">>],
      [kind |-> "rate_limit",     message |-> <<"429", "Too", "Many", "Requests">>],
      [kind |-> "server",         message |-> <<"503", "Service", "Unavailable">>] }

ApiOk == [kind |-> "ok", message |-> <<>>]

\* str.lower() on one word.
lower(word) ==
    CASE word = "Unauthorized" -> "unauthorized"
      [] word = "Forbidden"    -> "forbidden"
      [] word = "Invalid"      -> "invalid"
      [] word = "API"          -> "api"
      [] word = "Key"          -> "key"
      [] word = "Bad"          -> "bad"
      [] word = "Request"      -> "request"
      [] word = "Requests"     -> "requests"
      [] word = "Too"          -> "too"
      [] word = "Many"         -> "many"
      [] word = "Service"      -> "service"
      [] word = "Unavailable"  -> "unavailable"
      [] OTHER                 -> word

non_retryable_patterns ==
    { <<"unauthorized">>, <<"forbidden">>, <<"invalid_api_key">>, <<"bad", "request">>,
      <<"invalid_request_error">> }

\* `pattern in error_msg` for a pattern made of whole words.
pattern_in(pattern, error_msg) ==
    \E start \in 1..Len(error_msg) :
        /\ start + Len(pattern) - 1 <= Len(error_msg)
        /\ \A i \in 1..Len(pattern) : error_msg[start + i - 1] = pattern[i]

should_not_retry_never(exception) == FALSE

\* _should_not_retry
should_not_retry(exception) ==
    LET error_msg == [i \in DOMAIN exception.message |-> lower(exception.message[i])]
    IN  \E pattern \in non_retryable_patterns : pattern_in(pattern, error_msg)

RECURSIVE Pow2(_)
Pow2(n) == IF n = 0 THEN 1 ELSE 2 * Pow2(n - 1)

calculate_backoff_delay_uncapped(attempt) == RATE_LIMIT_DELAY * Pow2(attempt - 1)

\* _calculate_backoff_delay
calculate_backoff_delay(attempt) ==
    LET delay == RATE_LIMIT_DELAY * Pow2(attempt - 1)
    IN  IF delay < MaxBackoffDelay THEN delay ELSE MaxBackoffDelay

IdleGroq == [pc |-> "idle", max_retries |-> 0, attempt |-> 0, outcomes |-> <<>>,
             delays |-> <<>>, raised |-> "none"]

\* _send_request_with_retry is entered; max_retries is the client's setting.
SendRequestWithRetry ==
    /\ groq.pc \in {"idle", "returned", "raised"}
    /\ \E max_retries \in 0..MaxRetries :
          groq' = [IdleGroq EXCEPT !.pc = "calling", !.max_retries = max_retries]
    /\ UNCHANGED <<bulk, cache, prompt, sessionMessages, health, attemptCalls,
                   fallback, monitor, decisionMonitor, goalProgress, sessionRow,
                   userSkills, roadmapVars, authVars, quizVars, chatVars, gradVars>>

\* One pass of the while loop up to the sleep: the API call, and for a
\* failure the count, the no-retry test and the choice to sleep or to leave
\* the loop.
ApiAttempt ==
    /\ groq.pc = "calling"
    /\ \E outcome \in ApiErrors \cup {ApiOk} :
          LET attempt == groq.attempt + 1
              tried == [groq EXCEPT !.outcomes = Append(@, outcome)]
          IN  groq' =
                IF outcome = ApiOk THEN [tried EXCEPT !.pc = "returned"]
                ELSE IF should_not_retry(outcome)
                THEN [tried EXCEPT !.attempt = attempt, !.pc = "raised",
                                   !.raised = "original"]
                ELSE IF attempt <= groq.max_retries
                THEN [tried EXCEPT !.attempt = attempt, !.pc = "sleeping",
                                   !.delays = Append(@, calculate_backoff_delay(attempt))]
                ELSE [tried EXCEPT !.attempt = attempt, !.pc = "raised",
                                   !.raised = "exhausted"]
    /\ UNCHANGED <<bulk, cache, prompt, sessionMessages, health, attemptCalls,
                   fallback, monitor, decisionMonitor, goalProgress, sessionRow,
                   userSkills, roadmapVars, authVars, quizVars, chatVars, gradVars>>

\* time.sleep(delay) returns and the loop condition holds again.
BackoffSleepOver ==
    /\ groq.pc = "sleeping"
    /\ groq' = [groq EXCEPT !.pc = "calling"]
    /\ UNCHANGED <<bulk, cache, prompt, sessionMessages, health, attemptCalls,
                   fallback, monitor, decisionMonitor, goalProgress, sessionRow,
                   userSkills, roadmapVars, authVars, quizVars, chatVars, gradVars>>

InitGroq == groq = IdleGroq

NextGroq ==
    \/ SendRequestWithRetry
    \/ ApiAttempt
    \/ BackoffSleepOver

NotRetriedKinds == {"authentication", "permission", "bad_request"}

C23_BoundedAttempts ==
    /\ Len(groq.outcomes) <= groq.max_retries + 1
    /\ Len(groq.delays) <= groq.max_retries
    /\ \A i \in DOMAIN groq.delays : groq.delays[i] <= 30
    /\ \A i \in DOMAIN groq.outcomes :
          groq.outcomes[i] = ApiOk => (i = Len(groq.outcomes) /\ groq.pc = "returned")
    /\ groq.pc = "returned" => groq.outcomes[Len(groq.outcomes)] = ApiOk
    /\ groq.pc = "sleeping" => Len(groq.outcomes) <= groq.max_retries
    /\ (groq.pc = "raised" /\ groq.raised = "exhausted") =>
          /\ Len(groq.outcomes) = groq.max_retries + 1
          /\ Len(groq.delays) = groq.max_retries

\* Seven attempts failed with retryable errors; the sixth wait was capped.
C23_Witness ==
    /\ groq.pc = "raised"
    /\ groq.raised = "exhausted"
    /\ groq.max_retries = 6
    /\ Len(groq.outcomes) = 7
    /\ groq.delays = <<1, 2, 4, 8, 16, 30>>

(***************************************************************************)
(* Tool validator: the fallback strategy chain (utils/tool_validator.py)   *)
(***************************************************************************)

MaxFallbackRuns == 3

\* _initialize_fallback_strategies
fallback_strategies(tool_name) ==
    CASE tool_name = "createRoadmapSkeleton" ->
            << [strategy_type |-> "retry", max_attempts |-> 3,
                alternative_tools |-> <<>>],
               [strategy_type |-> "graceful_degradation", max_attempts |-> 3,
                alternative_tools |-> <<>>] >>
      [] tool_name = "createLearningMaterials" ->
            << [strategy_type |-> "retry", max_attempts |-> 2,
                alternative_tools |-> <<>>],
               [strategy_type |-> "alternative_tool", max_attempts |-> 3,
                alternative_tools |-> << "createRoadmapSkeleton" >>],
               [strategy_type |-> "graceful_degradation", max_attempts |-> 3,
                alternative_tools |-> <<>>] >>
      [] OTHER -> <<>>

\* validation_rules has the two tools; any other name fails validation.
ValidatedTools == {"createRoadmapSkeleton", "createLearningMaterials"}

FallbackToolInputs == ValidatedTools \cup {"summarizeCv"}

\* What one call of tool_function does: a value, None, or an exception.
ToolFunctionOutcomes == {"value", "None", "raises"}

IdleFallback ==
    [pc |-> "idle", tool_name |-> "none", strategy |-> 1, attempt |-> 0, tried |-> <<>>,
     outcome |-> [result |-> "none", success |-> FALSE, message |-> "none"],
     history |-> <<>>]

FallbackReturn(f, result, success, message) ==
    [f EXCEPT !.pc = "returned",
              !.outcome = [result |-> result, success |-> success, message |-> message],
              !.history = Append(@, message)]

\* The strategy in hand produced nothing: the for loop takes the next one.
NextStrategy(f) ==
    [f EXCEPT !.strategy = @ + 1, !.attempt = 0,
              !.tried = Append(@, [strategy_type |->
                                       fallback_strategies(f.tool_name)[f.strategy].strategy_type,
                                   produced |-> FALSE])]

Produced(f) ==
    [f EXCEPT !.tried = Append(@, [strategy_type |->
                                       fallback_strategies(f.tool_name)[f.strategy].strategy_type,
                                   produced |-> TRUE])]

\* The retry strategy returned a value and the chain goes on all the same.
after_retry_result_ignored(f) ==
    [Produced(f) EXCEPT !.strategy = @ + 1, !.attempt = 0]

\* "if result is not None: return result, True, ..."
after_retry_result(f) ==
    FallbackReturn(Produced(f), "tool result", TRUE, "Tool executed successfully")

\* execute_with_fallback is called: validation first.
ExecuteWithFallback ==
    /\ fallback.pc \in {"idle", "returned"}
    /\ Len(fallback.history) < MaxFallbackRuns
    /\ \E tool_name \in FallbackToolInputs, params_valid \in BOOLEAN :
          LET started == [IdleFallback EXCEPT !.tool_name = tool_name,
                                              !.history = fallback.history]
          IN  fallback' =
                IF tool_name \notin ValidatedTools \/ ~params_valid
                THEN FallbackReturn(started, "None", FALSE, "Validation failed")
                ELSE [started EXCEPT !.pc = "strategies"]
    /\ UNCHANGED <<bulk, cache, prompt, sessionMessages, health, attemptCalls, groq,
                   monitor, decisionMonitor, goalProgress, sessionRow, userSkills,
                   roadmapVars, authVars, quizVars, chatVars, gradVars>>

\* One step of the for loop over the strategies: an attempt of the retry
\* strategy, the alternative tools, the degradation message, or the end of
\* the list.
RunStrategy ==
    /\ fallback.pc = "strategies"
    /\ LET strategies == fallback_strategies(fallback.tool_name)
       IN  IF fallback.strategy > Len(strategies)
           THEN fallback' = FallbackReturn(fallback, "None", FALSE,
                                           "All fallback strategies failed")
           ELSE LET strategy == strategies[fallback.strategy]
                IN  CASE strategy.strategy_type = "retry" ->
                            \E called \in ToolFunctionOutcomes :
                                fallback' =
                                    IF called = "value" THEN after_retry_result(fallback)
                                    ELSE IF called = "None" THEN NextStrategy(fallback)
                                    ELSE IF fallback.attempt + 1 < strategy.max_attempts
                                    THEN [fallback EXCEPT !.attempt = @ + 1]
                                    ELSE NextStrategy(fallback)
                      [] strategy.strategy_type = "alternative_tool" ->
                            fallback' =
                                IF strategy.alternative_tools # <<>>
                                THEN FallbackReturn(Produced(fallback), "placeholder", TRUE,
                                                    "Executed alternative tool")
                                ELSE NextStrategy(fallback)
                      [] strategy.strategy_type = "graceful_degradation" ->
                            fallback' = FallbackReturn(Produced(fallback),
                                            "degradation_message", FALSE,
                                            "Graceful degradation applied")
                      [] OTHER -> fallback' = NextStrategy(fallback)
    /\ UNCHANGED <<bulk, cache, prompt, sessionMessages, health, attemptCalls, groq,
                   monitor, decisionMonitor, goalProgress, sessionRow, userSkills,
                   roadmapVars, authVars, quizVars, chatVars, gradVars>>

InitFallback == fallback = IdleFallback

NextFallback ==
    \/ ExecuteWithFallback
    \/ RunStrategy

\* C24: the strategies are tried in their configured order, the chain stops
\* at the first one that produces a result, and "All fallback strategies
\* failed" is reported exactly when every configured strategy was tried and
\* none produced a result.
C24_FallbackOrder ==
    LET strategies == fallback_strategies(fallback.tool_name)
        tried == fallback.tried
    IN  /\ Len(tried) <= Len(strategies)
        /\ \A i \in DOMAIN tried :
              /\ tried[i].strategy_type = strategies[i].strategy_type
              /\ tried[i].produced => (i = Len(tried) /\ fallback.pc = "returned")
        /\ (fallback.pc = "returned" /\ fallback.outcome.message # "Validation failed") =>
              ( fallback.outcome.message = "All fallback strategies failed"
                  <=> ( /\ Len(tried) = Len(strategies)
                        /\ \A i \in DOMAIN tried : ~tried[i].produced ) )

\* Both attempts of the retry strategy failed and the alternative tool gave
\* the result; the degradation strategy was not tried.
C24_Witness ==
    /\ fallback.pc = "returned"
    /\ fallback.tool_name = "createLearningMaterials"
    /\ fallback.tried = << [strategy_type |-> "retry", produced |-> FALSE],
                           [strategy_type |-> "alternative_tool", produced |-> TRUE] >>
    /\ fallback.outcome.message = "Executed alternative tool"

(***************************************************************************)
(* Tool execution monitor: performance alerts (utils/tool_validator.py)    *)
(***************************************************************************)

MaxExecutions == 11

MaxExecutionTime == 60
MetricsKept == 100
RecentWindow == 10
MinDataPoints == 5

\* Executions a caller reports: quick and successful, quick and failed,
\* slow and successful (execution_time in seconds).
ExecutionInputs ==
    { [success |-> TRUE,  execution_time |-> 1],
      [success |-> FALSE, execution_time |-> 1],
      [success |-> TRUE,  execution_time |-> 100] }

\* list[-n:]
LastN(list, n) ==
    IF Len(list) <= n THEN list ELSE SubSeq(list, Len(list) - n + 1, Len(list))

SumTimes(list) == SumSeq([i \in DOMAIN list |-> list[i].execution_time])

SuccessCount(list) == Cardinality({i \in DOMAIN list : list[i].success})

recent_metrics_unbounded(tool_metrics) == tool_metrics

\* tool_metrics[-10:]
recent_metrics(tool_metrics) == LastN(tool_metrics, RecentWindow)

\* avg_time > 60.0, on the sum to stay in the integers.
slow_execution(recent) == SumTimes(recent) > MaxExecutionTime * Len(recent)

\* success_rate < 0.8
low_success_rate(recent) == 10 * SuccessCount(recent) < 8 * Len(recent)

\* _check_performance_alerts: the alert types it creates, none with fewer
\* than five data points.
check_performance_alerts(tool_metrics) ==
    IF Len(tool_metrics) < MinDataPoints THEN {}
    ELSE LET recent == recent_metrics(tool_metrics)
         IN  (IF slow_execution(recent) THEN {"slow_execution"} ELSE {})
             \cup (IF low_success_rate(recent) THEN {"low_success_rate"} ELSE {})

\* record_execution for the one monitored tool: append, keep the last 100,
\* check the alerts; every alert created has severity warning.
RecordExecution ==
    /\ monitor.recorded < MaxExecutions
    /\ \E execution \in ExecutionInputs :
          LET metrics == LastN(Append(monitor.metrics, execution), MetricsKept)
              created == check_performance_alerts(metrics)
          IN  monitor' = [metrics |-> metrics,
                          recorded |-> monitor.recorded + 1,
                          alerts |-> monitor.alerts + Cardinality(created),
                          created |-> [alert_type \in created |-> "warning"]]
    /\ UNCHANGED <<bulk, cache, prompt, sessionMessages, health, attemptCalls, groq,
                   fallback, decisionMonitor, goalProgress, sessionRow, userSkills,
                   roadmapVars, authVars, quizVars, chatVars, gradVars>>

InitMonitor ==
    monitor = [metrics |-> <<>>, recorded |-> 0, alerts |-> 0, created |-> << >>]

NextMonitor == RecordExecution

\* The trailing executions of the tool, at most ten of them.
Trailing == LastN(monitor.metrics, 10)

TrailingSlow == SumTimes(Trailing) > 60 * Len(Trailing)

TrailingLowSuccess == 10 * SuccessCount(Trailing) < 8 * Len(Trailing)

\* C25 (as stated): after every record_execution, a trailing average
\* latency above 60 seconds or a trailing success rate below 80% has put a
\* warning alert on the alert log.
C25_AlertOnTrailingWindow ==
    (monitor.recorded > 0 /\ (TrailingSlow \/ TrailingLowSuccess)) =>
        \E alert_type \in DOMAIN monitor.created : monitor.created[alert_type] = "warning"

\* C25 (amended): after a record_execution that leaves the tool with at
\* least five recorded executions, a slow_execution warning was appended
\* exactly when the average latency of the last min(10, n) executions
\* exceeds 60 seconds and a low_success_rate warning exactly when their
\* success rate is below 80%; with fewer than five executions nothing is
\* appended.
C25_AlertFromFiveExecutions ==
    monitor.recorded > 0 =>
        IF Len(monitor.metrics) >= 5
        THEN /\ TrailingSlow <=> "slow_execution" \in DOMAIN monitor.created
             /\ TrailingLowSuccess <=> "low_success_rate" \in DOMAIN monitor.created
             /\ \A alert_type \in DOMAIN monitor.created :
                    monitor.created[alert_type] = "warning"
        ELSE DOMAIN monitor.created = {}

\* Eleven executions: the oldest one failed and is outside the window, the
\* last ten hold three failures, and the low_success_rate warning went out.
C25_Witness ==
    /\ Len(monitor.metrics) = 11
    /\ ~monitor.metrics[1].success
    /\ SuccessCount(Trailing) = 7
    /\ DOMAIN monitor.created = {"low_success_rate"}

(***************************************************************************)
(* Decision monitor: cached health report (utils/decision_monitor.py)      *)
(***************************************************************************)

MaxClock == 7
MaxLogged == 2

\* timedelta(minutes=5); the clock counts minutes.
CacheTtl == 5

\* An Optional attribute is the empty set when unset, a singleton when set.
Unset == {}

Value(optional) == CHOOSE value \in optional : TRUE

\* The report get_system_health_report builds: every field is computed from
\* the logged decisions and executions and from the time of computation.
health_report(dm, now) ==
    [timestamp |-> now,
     total_decisions |-> dm.decisions,
     total_executions |-> dm.tool_executions]

cache_is_fresh_inclusive(dm, now) ==
    /\ dm.metrics_cache /= Unset
    /\ dm.cache_timestamp /= Unset
    /\ now - Value(dm.cache_timestamp) <= CacheTtl

\* self._metrics_cache and self._cache_timestamp and
\* datetime.now() - self._cache_timestamp < self._cache_ttl
cache_is_fresh(dm, now) ==
    /\ dm.metrics_cache /= Unset
    /\ dm.cache_timestamp /= Unset
    /\ now - Value(dm.cache_timestamp) < CacheTtl

\* Time passes between calls.
ClockTick ==
    /\ decisionMonitor.clock < MaxClock
    /\ decisionMonitor' = [decisionMonitor EXCEPT !.clock = @ + 1]
    /\ UNCHANGED <<bulk, cache, prompt, sessionMessages, health, attemptCalls, groq,
                   fallback, monitor, goalProgress, sessionRow, userSkills,
                   roadmapVars, authVars, quizVars, chatVars, gradVars>>

\* log_decision: append the decision, invalidate the cache (the timestamp
\* of the cache is left as it is).
LogDecision ==
    /\ decisionMonitor.decisions < MaxLogged
    /\ decisionMonitor' = [decisionMonitor EXCEPT !.decisions = @ + 1,
                                                  !.metrics_cache = Unset,
                                                  !.logged_since = TRUE,
                                                  !.last = Unset]
    /\ UNCHANGED <<bulk, cache, prompt, sessionMessages, health, attemptCalls, groq,
                   fallback, monitor, goalProgress, sessionRow, userSkills,
                   roadmapVars, authVars, quizVars, chatVars, gradVars>>

\* log_tool_execution: append the execution, invalidate the cache.
LogToolExecution ==
    /\ decisionMonitor.tool_executions < MaxLogged
    /\ decisionMonitor' = [decisionMonitor EXCEPT !.tool_executions = @ + 1,
                                                  !.metrics_cache = Unset,
                                                  !.logged_since = TRUE,
                                                  !.last = Unset]
    /\ UNCHANGED <<bulk, cache, prompt, sessionMessages, health, attemptCalls, groq,
                   fallback, monitor, goalProgress, sessionRow, userSkills,
                   roadmapVars, authVars, quizVars, chatVars, gradVars>>

\* get_system_health_report.  last records the call: the report computed
\* most recently before it, whether an event was logged since, the report
\* returned and whether it was computed by this call.
GetSystemHealthReport ==
    /\ LET dm == decisionMonitor
           now == dm.clock
           call(returned, recomputed) ==
               [at |-> now, previous |-> dm.computed, logged_since |-> dm.logged_since,
                returned |-> returned, recomputed |-> recomputed]
       IN  IF cache_is_fresh(dm, now)
           THEN decisionMonitor' =
                    [dm EXCEPT !.last = {call(Value(dm.metrics_cache), FALSE)}]
           ELSE LET report == health_report(dm, now)
                IN  decisionMonitor' =
                        [dm EXCEPT !.metrics_cache = {report},
                                   !.cache_timestamp = {now},
                                   !.computed = {report},
                                   !.logged_since = FALSE,
                                   !.last = {call(report, TRUE)}]
    /\ UNCHANGED <<bulk, cache, prompt, sessionMessages, health, attemptCalls, groq,
                   fallback, monitor, goalProgress, sessionRow, userSkills,
                   roadmapVars, authVars, quizVars, chatVars, gradVars>>

InitDecisionMonitor ==
    decisionMonitor = [clock |-> 0, decisions |-> 0, tool_executions |-> 0,
                       metrics_cache |-> Unset, cache_timestamp |-> Unset,
                       computed |-> Unset, logged_since |-> FALSE, last |-> Unset]

NextDecisionMonitor ==
    \/ ClockTick
    \/ LogDecision
    \/ LogToolExecution
    \/ GetSystemHealthReport

\* The last operation was a get_system_health_report call made when a report
\* had been computed before.
LastCall == Value(decisionMonitor.last)

CallAfterComputation ==
    /\ decisionMonitor.last /= Unset
    /\ LastCall.previous /= Unset

\* C26 (as stated): a call made less than 5 minutes after the report was
\* computed returns that report without recomputation, and a call made 5
\* minutes or more after it recomputes.
C26_CachedForFiveMinutes ==
    CallAfterComputation =>
        LET call == LastCall
        IN  IF call.at - Value(call.previous).timestamp < 5
            THEN ~call.recomputed /\ call.returned = Value(call.previous)
            ELSE call.recomputed

\* C26 (amended): a call returns the previously computed report without
\* recomputation exactly when it is made less than 5 minutes after that
\* report was computed and no decision or tool execution was logged in
\* between; every other call recomputes.
C26_CachedUntilLoggedOrExpired ==
    /\ (decisionMonitor.last /= Unset /\ LastCall.previous = Unset) =>
           LastCall.recomputed
    /\ CallAfterComputation =>
           LET call == LastCall
           IN  IF call.at - Value(call.previous).timestamp < 5 /\ ~call.logged_since
               THEN ~call.recomputed /\ call.returned = Value(call.previous)
               ELSE /\ call.recomputed
                    /\ call.returned.timestamp = call.at

\* A call four minutes after the computation, nothing logged in between,
\* answered from the cache.
C26_Witness ==
    /\ CallAfterComputation
    /\ LastCall.at - Value(LastCall.previous).timestamp = 4
    /\ ~LastCall.logged_since
    /\ ~LastCall.recomputed
    /\ LastCall.returned = Value(LastCall.previous)

(***************************************************************************)
(* Goal progress and roadmap completion (db_config/crud.py)                *)
(***************************************************************************)

MaxGoalCalls == 4

\* The goals of the one roadmap; one more id that has no row.
GoalIds == {1, 2}

GoalIdInputs == GoalIds \cup {3}

PercentageInputs == {0, 50, 100}

NewGoal == [is_completed |-> FALSE, completion_percentage |-> 0, completed_at |-> Unset]

\* Keyword arguments of update_goal that bear on completion; an argument
\* left out or passed as None is Unset.
GoalKwargs ==
    [is_completed : {Unset, {TRUE}, {FALSE}},
     completion_percentage : {Unset} \cup {{p} : p \in PercentageInputs}]

\* "for field, value in kwargs.items(): if field in allowed_fields and
\* value is not None: setattr(goal, field, value)"
set_goal_fields(goal, kwargs) ==
    [goal EXCEPT
        !.is_completed = IF kwargs.is_completed = Unset THEN @
                         ELSE Value(kwargs.is_completed),
        !.completion_percentage = IF kwargs.completion_percentage = Unset THEN @
                                  ELSE Value(kwargs.completion_percentage)]

\* "if kwargs.get('is_completed') == True and not goal.completed_at"
handle_completion(goal, kwargs, now) ==
    IF kwargs.is_completed = {TRUE} /\ goal.completed_at = Unset
    THEN [goal EXCEPT !.completed_at = {now}, !.completion_percentage = 100]
    ELSE goal

\* update_goal on the goal rows: a goal id without a row changes nothing.
update_goal(rows, goal_id, kwargs, now) ==
    IF goal_id \notin DOMAIN rows THEN rows
    ELSE [rows EXCEPT ![goal_id] =
              handle_completion(set_goal_fields(rows[goal_id], kwargs), kwargs, now)]

\* mark_goal_completed
mark_goal_completed(rows, goal_id, now) ==
    update_goal(rows, goal_id,
                [is_completed |-> {TRUE}, completion_percentage |-> {100}], now)

\* update_goal_progress
update_goal_progress(rows, goal_id, completion_percentage, now) ==
    update_goal(rows, goal_id,
                [is_completed |-> IF completion_percentage >= 100 THEN {TRUE} ELSE Unset,
                 completion_percentage |-> {completion_percentage}], now)

\* update_roadmap(status = COMPLETED)
update_roadmap_completed(roadmap, now) ==
    [roadmap EXCEPT !.status = "completed", !.completed_at = {now}]

\* "all([g.is_completed for g in all_goals])"
all_completed(rows) == \A goal_id \in DOMAIN rows : rows[goal_id].is_completed

GoalCall(op, rows, roadmap) ==
    goalProgress' = [goals |-> rows, roadmap |-> roadmap,
                     calls |-> goalProgress.calls + 1, last |-> op]

UpdateGoal ==
    /\ goalProgress.calls < MaxGoalCalls
    /\ \E goal_id \in GoalIdInputs, kwargs \in GoalKwargs :
          GoalCall("update_goal",
                   update_goal(goalProgress.goals, goal_id, kwargs, goalProgress.calls + 1),
                   goalProgress.roadmap)
    /\ UNCHANGED <<bulk, cache, prompt, sessionMessages, health, attemptCalls, groq,
                   fallback, monitor, decisionMonitor, sessionRow, userSkills,
                   roadmapVars, authVars, quizVars, chatVars, gradVars>>

MarkGoalCompleted ==
    /\ goalProgress.calls < MaxGoalCalls
    /\ \E goal_id \in GoalIdInputs :
          GoalCall("mark_goal_completed",
                   mark_goal_completed(goalProgress.goals, goal_id, goalProgress.calls + 1),
                   goalProgress.roadmap)
    /\ UNCHANGED <<bulk, cache, prompt, sessionMessages, health, attemptCalls, groq,
                   fallback, monitor, decisionMonitor, sessionRow, userSkills,
                   roadmapVars, authVars, quizVars, chatVars, gradVars>>

UpdateGoalProgress ==
    /\ goalProgress.calls < MaxGoalCalls
    /\ \E goal_id \in GoalIdInputs, completion_percentage \in PercentageInputs :
          GoalCall("update_goal_progress",
                   update_goal_progress(goalProgress.goals, goal_id, completion_percentage,
                                        goalProgress.calls + 1),
                   goalProgress.roadmap)
    /\ UNCHANGED <<bulk, cache, prompt, sessionMessages, health, attemptCalls, groq,
                   fallback, monitor, decisionMonitor, sessionRow, userSkills,
                   roadmapVars, authVars, quizVars, chatVars, gradVars>>

\* example_complete_goal: when the goal has materials and all of them are
\* completed, mark the goal completed and, if every goal of the roadmap is
\* then completed, set the roadmap's status.
ExampleCompleteGoal ==
    /\ goalProgress.calls < MaxGoalCalls
    /\ \E goal_id \in GoalIdInputs, materials_all_completed \in BOOLEAN :
          LET now == goalProgress.calls + 1
              rows == mark_goal_completed(goalProgress.goals, goal_id, now)
          IN  IF goal_id \notin DOMAIN goalProgress.goals \/ ~materials_all_completed
              THEN GoalCall("example_complete_goal", goalProgress.goals,
                            goalProgress.roadmap)
              ELSE GoalCall("example_complete_goal", rows,
                            IF all_completed(rows)
                            THEN update_roadmap_completed(goalProgress.roadmap, now)
                            ELSE goalProgress.roadmap)
    /\ UNCHANGED <<bulk, cache, prompt, sessionMessages, health, attemptCalls, groq,
                   fallback, monitor, decisionMonitor, sessionRow, userSkills,
                   roadmapVars, authVars, quizVars, chatVars, gradVars>>

InitGoalProgress ==
    goalProgress = [goals |-> [goal_id \in GoalIds |-> NewGoal],
                    roadmap |-> [status |-> "active", completed_at |-> Unset],
                    calls |-> 0, last |-> "none"]

NextGoalProgress ==
    \/ UpdateGoal
    \/ MarkGoalCompleted
    \/ UpdateGoalProgress
    \/ ExampleCompleteGoal

\* C27: every goal whose completion_percentage is at least 100 has
\* is_completed = true, whatever update_goal, update_goal_progress and
\* mark_goal_completed calls were made.
C27_FullPercentageIsCompleted ==
    \A goal_id \in DOMAIN goalProgress.goals :
        goalProgress.goals[goal_id].completion_percentage >= 100 =>
            goalProgress.goals[goal_id].is_completed

\* C29: a mark_goal_completed or update_goal_progress call that completes
\* the last incomplete goal of the roadmap leaves the roadmap with status
\* completed.
C29_RoadmapCompletedWithLastGoal ==
    [][(/\ goalProgress'.last \in {"mark_goal_completed", "update_goal_progress"}
        /\ ~all_completed(goalProgress.goals)
        /\ all_completed(goalProgress'.goals))
       => goalProgress'.roadmap.status = "completed"]_vars

(***************************************************************************)
(* Session status and completed_at (db_config/crud.py, routes/sessions.py) *)
(***************************************************************************)

MaxSessionCalls == 4

\* The one stored session, and an id without a row.
StoredSessionIds == {1}

SessionIdInputs == {1, 2}

SessionStatuses == {"active", "completed", "archived"}

\* update_session on the stored row: each argument that is not None is
\* written; status completed stamps completed_at with the current time.
update_session(session, session_name, status, now) ==
    LET named == IF session_name = Unset THEN session
                 ELSE [session EXCEPT !.session_name = Value(session_name)]
    IN  IF status = Unset THEN named
        ELSE IF Value(status) = "completed"
             THEN [named EXCEPT !.status = "completed", !.completed_at = {now}]
             ELSE [named EXCEPT !.status = Value(status)]

SessionCall(op, session, answer) ==
    sessionRow' = [session |-> session, calls |-> sessionRow.calls + 1,
                   last |-> [op |-> op, answer |-> answer]]

\* crud.update_session: None for a session id without a row.
UpdateSession ==
    /\ sessionRow.calls < MaxSessionCalls
    /\ \E session_id \in SessionIdInputs,
          session_name \in {Unset, {"renamed"}},
          status \in {Unset} \cup {{s} : s \in SessionStatuses} :
          IF session_id \notin StoredSessionIds
          THEN SessionCall("update_session", sessionRow.session, "None")
          ELSE SessionCall("update_session",
                           update_session(sessionRow.session, session_name, status,
                                          sessionRow.calls + 1),
                           "session")
    /\ UNCHANGED <<bulk, cache, prompt, sessionMessages, health, attemptCalls, groq,
                   fallback, monitor, decisionMonitor, goalProgress, userSkills,
                   roadmapVars, authVars, quizVars, chatVars, gradVars>>

\* POST /{session_id}/complete: 404 without a row, otherwise
\* update_session(status = COMPLETED), whatever the current status.
CompleteSession ==
    /\ sessionRow.calls < MaxSessionCalls
    /\ \E session_id \in SessionIdInputs :
          IF session_id \notin StoredSessionIds
          THEN SessionCall("complete_session", sessionRow.session, "404")
          ELSE SessionCall("complete_session",
                           update_session(sessionRow.session, Unset, {"completed"},
                                          sessionRow.calls + 1),
                           "200")
    /\ UNCHANGED <<bulk, cache, prompt, sessionMessages, health, attemptCalls, groq,
                   fallback, monitor, decisionMonitor, goalProgress, userSkills,
                   roadmapVars, authVars, quizVars, chatVars, gradVars>>

InitSessionRow ==
    sessionRow = [session |-> [session_name |-> "new", status |-> "active",
                               completed_at |-> Unset],
                  calls |-> 0, last |-> [op |-> "none", answer |-> "none"]]

NextSessionRow ==
    \/ UpdateSession
    \/ CompleteSession

\* C28: completed_at is written only by a step that takes the session from
\* a status other than completed to completed; any update of a session that
\* is already completed leaves completed_at as it was.
C28_CompletedAtOnlyOnTransition ==
    [][sessionRow'.session.completed_at /= sessionRow.session.completed_at
       => (/\ sessionRow.session.status /= "completed"
           /\ sessionRow'.session.status = "completed")]_vars

(***************************************************************************)
(* User skills (db_config/crud.py)                                         *)
(***************************************************************************)

MaxSkillRows == 3
MaxBulkSkills == 2

SkillUsers == {"u1", "u2"}

SkillNames == {"python", "sql"}

SkillLevels == {"beginner", "expert"}

\* The row a UserSkill(...) constructor call adds.
new_user_skill(user_id, skill_name, skill_level) ==
    [user_id |-> user_id, skill_name |-> skill_name, skill_level |-> skill_level]

\* create_user_skill: add the row and commit; no lookup.
create_user_skill(rows, user_id, skill_name, skill_level) ==
    Append(rows, new_user_skill(user_id, skill_name, skill_level))

\* The rows the filter of get_user_skill_by_name matches; .first() has no
\* order_by, so with several matches the row returned is any of them.
get_user_skill_by_name(rows, user_id, skill_name) ==
    {i \in DOMAIN rows : rows[i].user_id = user_id /\ rows[i].skill_name = skill_name}

\* bulk_create_user_skills: one row per entry of the list, in order.
bulk_create_user_skills(rows, user_id, skills) ==
    rows \o [k \in DOMAIN skills |->
                new_user_skill(user_id, skills[k].skill_name, skills[k].skill_level)]

SkillData == [skill_name : SkillNames, skill_level : SkillLevels]

SkillLists ==
    UNION {[1..n -> SkillData] : n \in 0..MaxBulkSkills}

CreateUserSkill ==
    /\ Len(userSkills) < MaxSkillRows
    /\ \E user_id \in SkillUsers, skill_name \in SkillNames, skill_level \in SkillLevels :
          userSkills' = create_user_skill(userSkills, user_id, skill_name, skill_level)
    /\ UNCHANGED <<bulk, cache, prompt, sessionMessages, health, attemptCalls, groq,
                   fallback, monitor, decisionMonitor, goalProgress, sessionRow,
                   roadmapVars, authVars, quizVars, chatVars, gradVars>>

\* upsert_user_skill: overwrite the row found, otherwise create_user_skill.
UpsertUserSkill ==
    /\ \E user_id \in SkillUsers, skill_name \in SkillNames, skill_level \in SkillLevels :
          LET found == get_user_skill_by_name(userSkills, user_id, skill_name)
          IN  IF found /= {}
              THEN \E existing_skill \in found :
                      userSkills' =
                          [userSkills EXCEPT ![existing_skill].skill_level = skill_level]
              ELSE /\ Len(userSkills) < MaxSkillRows
                   /\ userSkills' =
                          create_user_skill(userSkills, user_id, skill_name, skill_level)
    /\ UNCHANGED <<bulk, cache, prompt, sessionMessages, health, attemptCalls, groq,
                   fallback, monitor, decisionMonitor, goalProgress, sessionRow,
                   roadmapVars, authVars, quizVars, chatVars, gradVars>>

BulkCreateUserSkills ==
    /\ \E user_id \in SkillUsers, skills \in SkillLists :
          /\ Len(userSkills) + Len(skills) <= MaxSkillRows
          /\ userSkills' = bulk_create_user_skills(userSkills, user_id, skills)
    /\ UNCHANGED <<bulk, cache, prompt, sessionMessages, health, attemptCalls, groq,
                   fallback, monitor, decisionMonitor, goalProgress, sessionRow,
                   roadmapVars, authVars, quizVars, chatVars, gradVars>>

InitUserSkills == userSkills = <<>>

NextUserSkills ==
    \/ CreateUserSkill
    \/ UpsertUserSkill
    \/ BulkCreateUserSkills

\* C30: whatever create_user_skill, bulk_create_user_skills and
\* upsert_user_skill calls were made, no two UserSkill rows have the same
\* user_id and skill_name.
C30_OneRowPerUserAndSkill ==
    \A i, j \in DOMAIN userSkills :
        (/\ userSkills[i].user_id = userSkills[j].user_id
         /\ userSkills[i].skill_name = userSkills[j].skill_name) => i = j

(***************************************************************************)
(* Initial state and specifications                                        *)
(***************************************************************************)

Init ==
    /\ InitAuth
    /\ InitRoadmap
    /\ InitQuiz
    /\ InitChat
    /\ InitGrad
    /\ InitBulk
    /\ InitCache
    /\ InitUserSkills
    /\ InitSessionRow
    /\ InitGoalProgress
    /\ InitDecisionMonitor
    /\ InitMonitor
    /\ InitFallback
    /\ InitGroq
    /\ InitAttemptCalls
    /\ InitHealth
    /\ InitMessages
    /\ InitPrompt

NextAuth == HttpRequest

SpecAuth == Init /\ [][NextAuth]_vars

SpecQuiz == Init /\ [][NextQuiz]_vars

\* The roadmap operations never read the quiz tables: one quiz configuration
\* is enough for them.
InitRoadmapSpec == Init /\ quiz.id = 1 /\ quiz.max_attempts = 1 /\ Len(quiz.questions) = 1

SpecRoadmap == InitRoadmapSpec /\ [][NextRoadmap]_vars

\* Roadmap and goal rows only: creations and edits.
NextRoadmapRows ==
    \/ ExecuteRoadmapCreation
    \/ ExecuteRoadmapSkeletonEditing

SpecRoadmapRows == InitRoadmapSpec /\ [][NextRoadmapRows]_vars

SpecChat == InitRoadmapSpec /\ [][NextChat]_vars

SpecGrad == InitRoadmapSpec /\ [][NextGrad]_vars

SpecBulk == InitRoadmapSpec /\ [][NextBulk]_vars

SpecCache == InitRoadmapSpec /\ [][NextCache]_vars

SpecPrompt == InitRoadmapSpec /\ [][NextPrompt]_vars

SpecMessageLog == InitRoadmapSpec /\ [][NextMessageLog]_vars

SpecMessageEdit == InitRoadmapSpec /\ [][NextMessageEdit]_vars

SpecHealth == InitRoadmapSpec /\ [][NextHealth]_vars

SpecAttemptRace == Init /\ [][NextAttemptRace]_vars

SpecGroq == InitRoadmapSpec /\ [][NextGroq]_vars

SpecFallback == InitRoadmapSpec /\ [][NextFallback]_vars

SpecMonitor == InitRoadmapSpec /\ [][NextMonitor]_vars

SpecDecisionMonitor == InitRoadmapSpec /\ [][NextDecisionMonitor]_vars

SpecGoalProgress == InitRoadmapSpec /\ [][NextGoalProgress]_vars

SpecSessionRow == InitRoadmapSpec /\ [][NextSessionRow]_vars

SpecUserSkills == InitRoadmapSpec /\ [][NextUserSkills]_vars

====
